---- MODULE Spec2Model ----
(***************************************************************************)
(* Model of the manga translation overlay extension.                       *)
(*                                                                         *)
(*   Page side  (src/src/content/index.ts, lines 116-501): the content     *)
(*     script's TRANSLATE_PAGE listener, processPage, processImage and the *)
(*     overlay anchor, as asynchronous runs over the images of a page.     *)
(*     Every action is one synchronous stretch of code between two awaits. *)
(*                                                                         *)
(*   Popup side (src/unnamed/part_001): handleTranslate and its nested     *)
(*     sendMessage, the delivery protocol that gets the TRANSLATE_PAGE     *)
(*     request to the page, with injection and resend.                     *)
(*                                                                         *)
(*   Translation (src/unnamed/part_004): translateText with its remote     *)
(*     attempt, the lazily loaded local model and translatorCache, in the  *)
(*     content script's process; and the popup's Download button with      *)
(*     initTranslator / forceDownloadModel, in the popup's process.        *)
(*                                                                         *)
(*   Units of the page side, each looked at on its own: one overlay anchor *)
(*     from createOverlayAnchor's return to after its dispose, and one     *)
(*     call of extractBlocks, of isGarbage, of inflateBBox with            *)
(*     getScaleFactors, and of makeOverlayBox.                             *)
(*                                                                         *)
(*   Background (src/src/background/index.ts): the TRANSLATE_REMOTE        *)
(*     handler with translateViaLibre as the sender of its requests.       *)
(***************************************************************************)
EXTENDS Integers, Sequences, FiniteSets, TLC

(***************************************************************************)
(* Bounds of the model.                                                    *)
(***************************************************************************)
NumImages == 2      \* images of the page that pass the size filter
MaxRuns == 2        \* TRANSLATE_PAGE requests received by the content script
MaxBlocks == 2      \* regions extractBlocks can return for one image
LayoutFrames == 1   \* animation frames that fit into waitForLayout's timeout
OverlayFrames == 1  \* animation frames that fit into waitForOverlay's timeout

Images == 1..NumImages
Runs == 1..MaxRuns

VARIABLES
    imgState,            \* img -> "loading" | "loaded" | "broken" (complete, naturalWidth)
    mangaTlProcessing,   \* img -> BOOLEAN   (img.dataset.mangaTlProcessing)
    mangaTlProcessed,    \* img -> BOOLEAN   (img.dataset.mangaTlProcessed)
    run,                 \* run -> "idle" | "active" | "done" | "aborted"  (processPage)
    cur,                 \* run -> position of processPage's for loop (0 = not started)
    pc,                  \* run -> await point of the processImage the run is in
    frames,              \* run -> frames already waited by the current polling wait
    objectUrl,           \* run -> BOOLEAN   (processImage's objectUrl is not null)
    pending,             \* run -> translations of the current image still in flight
    results,             \* run -> [str, nul, thr]: how the regions' translateText calls ended
    ocr,                 \* run -> what performOCR and extractBlocks gave for the current image
    anchor,              \* run -> img -> the overlay anchor the run created for img
    visit,               \* run -> img -> how the run dealt with img
    response             \* run -> the sendResponse calls the listener made for the request

VARIABLES
    status,              \* App's status state: idle, loading, translating, done, error
    progress,            \* App's progress state
    logs,                \* App's logs state: sequence of [level, message]
    step,                \* where the current handleTranslate call is suspended
    retryCount,          \* handleTranslate's retryCount
    sends,               \* chrome.tabs.sendMessage calls made by the current action
    injections,          \* chrome.scripting.executeScript calls made by the current action
    cause,               \* how the current action ended ("none" while it runs)
    lastFailure,         \* the failure the latest settled call of the action reported
    manifestScripts,     \* BOOLEAN: the manifest lists a content script
    sendResults,         \* how the sends of the current action were answered, in order
    actions              \* translate actions started so far

VARIABLES
    calls,               \* call -> the state of one translateText call
    translatorCache,     \* model id -> the cached capability (0: no entry)
    loadCount,           \* pipeline() loads started so far; a load's number names its capability
    clicks,              \* click -> the state of one Download button handler
    modelReady           \* App's modelReady state

pageVars == <<imgState, mangaTlProcessing, mangaTlProcessed, run, cur, pc, frames,
              objectUrl, pending, results, ocr, anchor, visit, response>>

popupVars == <<status, progress, logs, step, retryCount, sends, injections, cause,
               lastFailure, manifestScripts, sendResults, actions>>

mlVars == <<calls, translatorCache, loadCount, clicks, modelReady>>

\* one overlay anchor and one call of extractBlocks, looked at on their own
VARIABLES overlayAnchor, imgRect, ocrResult, extracted

\* one call of isGarbage, of inflateBBox, of makeOverlayBox, and one
\* TRANSLATE_REMOTE request to the background script
VARIABLES garbage, inflated, overlayBox, background

anchorVars == <<overlayAnchor, imgRect>>

extractVars == <<ocrResult, extracted>>

helperVars == <<garbage, inflated, overlayBox, background>>

unitVars == <<anchorVars, extractVars, helperVars>>

vars == <<pageVars, popupVars, mlVars, unitVars>>

NoAnchor == [state |-> "none", boxes |-> 0, border |-> "purple"]
NoResults == [str |-> 0, nul |-> 0, thr |-> 0]
NoOcr == [text |-> "none", confidence |-> 0, regions |-> 0]

InFlightPcs == {"waitImage", "layout", "overlay", "fetch", "ocr", "trFallback", "trBlocks"}

\* the runs whose processImage call on img has not returned yet
InFlight(i) == {r \in Runs : run[r] = "active" /\ cur[r] = i /\ pc[r] \in InFlightPcs}

\* the anchors of img whose element is attached to the document
ActiveAnchors(i) == {r \in Runs : anchor[r][i].state = "attached"}

PageInit ==
    /\ imgState \in [Images -> {"loading", "loaded", "broken"}]
    /\ mangaTlProcessing = [i \in Images |-> FALSE]
    /\ mangaTlProcessed = [i \in Images |-> FALSE]
    /\ run = [r \in Runs |-> "idle"]
    /\ cur = [r \in Runs |-> 0]
    /\ pc = [r \in Runs |-> "none"]
    /\ frames = [r \in Runs |-> 0]
    /\ objectUrl = [r \in Runs |-> FALSE]
    /\ pending = [r \in Runs |-> 0]
    /\ results = [r \in Runs |-> NoResults]
    /\ ocr = [r \in Runs |-> NoOcr]
    /\ anchor = [r \in Runs |-> [i \in Images |-> NoAnchor]]
    /\ visit = [r \in Runs |-> [i \in Images |-> "none"]]
    /\ response = [r \in Runs |-> <<>>]

(***************************************************************************)
(* processPage: the for loop over the images.                              *)
(***************************************************************************)
Skippable_ProcessedOnly(i) == mangaTlProcessed[i]

\* the guard of the loop body: the image is skipped
Skippable(i) == mangaTlProcessed[i] \/ mangaTlProcessing[i]

\* the images the loop skips from position k on, and the first one it takes
RECURSIVE FirstTaken(_)
FirstTaken(k) ==
    IF k > NumImages THEN 0
    ELSE IF Skippable(k) THEN FirstTaken(k + 1)
    ELSE k

\* processImage up to its first await: the load check
EnterPc_NoLayoutWait(i) == IF imgState[i] # "loaded" THEN "waitImage" ELSE "overlay"

EnterPc(i) == IF imgState[i] # "loaded" THEN "waitImage" ELSE "layout"

\* the loop from position k on: skip the flagged images, flag the first
\* other one and call processImage on it, or leave the loop
LoopFrom(r, k) ==
    LET j == FirstTaken(k)
        upto == IF j = 0 THEN NumImages ELSE j - 1
        skippedNow == {i \in k..upto : TRUE}
    IN /\ visit' = [visit EXCEPT ![r] = [i \in Images |->
                        IF i \in skippedNow THEN "skipped"
                        ELSE IF i = j THEN "running"
                        ELSE visit[r][i]]]
       /\ IF j = 0
          THEN /\ run' = [run EXCEPT ![r] = "done"]
               /\ cur' = [cur EXCEPT ![r] = NumImages + 1]
               /\ pc' = [pc EXCEPT ![r] = "none"]
               /\ UNCHANGED mangaTlProcessing
          ELSE /\ run' = [run EXCEPT ![r] = "active"]
               /\ cur' = [cur EXCEPT ![r] = j]
               /\ mangaTlProcessing' = [mangaTlProcessing EXCEPT ![j] = TRUE]
               /\ pc' = [pc EXCEPT ![r] = EnterPc(j)]
       /\ frames' = [frames EXCEPT ![r] = 0]

AckOnReceive_Never(r) == UNCHANGED response

\* the listener's sendResponse({status: 'started'}), right after the
\* processPage call has returned its promise
AckOnReceive(r) == response' = [response EXCEPT ![r] = Append(@, "started")]

\* the onMessage listener: a TRANSLATE_PAGE request starts a processPage run
Trigger(r) ==
    /\ UNCHANGED <<popupVars, mlVars, unitVars>>
    /\ run[r] = "idle"
    /\ \A q \in Runs : q < r => run[q] # "idle"
    /\ LoopFrom(r, 1)
    /\ AckOnReceive(r)
    /\ UNCHANGED <<imgState, mangaTlProcessed, objectUrl, pending, results, ocr, anchor>>

\* the await of processImage returns to the loop; a rejection leaves
\* processPage, and the listener's catch logs it
Resume(r) ==
    /\ UNCHANGED <<popupVars, mlVars, response, unitVars>>
    /\ run[r] = "active"
    /\ pc[r] \in {"ended", "rejected"}
    /\ IF pc[r] = "rejected"
       THEN /\ run' = [run EXCEPT ![r] = "aborted"]
            /\ pc' = [pc EXCEPT ![r] = "none"]
            /\ UNCHANGED <<cur, frames, visit, mangaTlProcessing>>
       ELSE LoopFrom(r, cur[r] + 1)
    /\ UNCHANGED <<imgState, mangaTlProcessed, objectUrl, pending, results, ocr, anchor>>

(***************************************************************************)
(* processImage: the exits.                                                *)
(***************************************************************************)
DisposeOnExit_Never(boxes) == FALSE

DisposeOnExit_Always(boxes) == TRUE

\* the finally block's test for disposing the anchor
DisposeOnExit(boxes) == boxes = 0

ProcessedOnExit_Never(success) == FALSE

ProcessedOnExit_Always(success) == TRUE

\* the value of the processed flag when the try statement is left
ProcessedOnExit(success) == success

\* a return before the try statement: no flag is touched
EarlyReturn(r, out, dispose) ==
    LET i == cur[r] IN
    /\ pc' = [pc EXCEPT ![r] = "ended"]
    /\ visit' = [visit EXCEPT ![r][i] = out]
    /\ anchor' = IF dispose THEN [anchor EXCEPT ![r][i].state = "disposed"] ELSE anchor
    /\ frames' = [frames EXCEPT ![r] = 0]
    /\ UNCHANGED <<imgState, mangaTlProcessing, mangaTlProcessed, run, cur,
                   objectUrl, pending, results, ocr>>

BorderOnExit_Purple(thrown) == "purple"

\* the catch clause's overlay.style.borderColor = 'red'
BorderOnExit(thrown) == IF thrown THEN "red" ELSE "purple"

\* leaving the try statement: boxes appended, catch clause, finally block
LeaveTry(r, out, success, boxes, thrown, endPc) ==
    LET i == cur[r] IN
    /\ pc' = [pc EXCEPT ![r] = endPc]
    /\ visit' = [visit EXCEPT ![r][i] = out]
    /\ anchor' = [anchor EXCEPT ![r][i] =
                    [state |-> IF DisposeOnExit(boxes) THEN "disposed" ELSE "attached",
                     boxes |-> boxes,
                     border |-> BorderOnExit(thrown)]]
    /\ objectUrl' = [objectUrl EXCEPT ![r] = FALSE]
    /\ mangaTlProcessing' = [mangaTlProcessing EXCEPT ![i] = FALSE]
    /\ mangaTlProcessed' = [mangaTlProcessed EXCEPT ![i] = ProcessedOnExit(success)]
    /\ pending' = [pending EXCEPT ![r] = 0]
    /\ results' = [results EXCEPT ![r] = NoResults]
    /\ ocr' = [ocr EXCEPT ![r] = NoOcr]
    /\ UNCHANGED <<imgState, run, cur, frames>>

OnException_Rethrow(r) == LeaveTry(r, "exception", FALSE, 0, TRUE, "rejected")

\* an exception inside the try statement: caught, border recoloured
OnException(r) == LeaveTry(r, "exception", FALSE, 0, TRUE, "ended")

(***************************************************************************)
(* processImage: the steps.                                                *)
(***************************************************************************)
\* the image fires load: waitForImage resolves true
ImgLoad(i) ==
    /\ UNCHANGED <<popupVars, mlVars, response, unitVars>>
    /\ imgState[i] = "loading"
    /\ imgState' = [imgState EXCEPT ![i] = "loaded"]
    /\ pc' = [r \in Runs |-> IF cur[r] = i /\ pc[r] = "waitImage" THEN "layout" ELSE pc[r]]
    /\ UNCHANGED <<mangaTlProcessing, mangaTlProcessed, run, cur, frames, objectUrl,
                   pending, results, ocr, anchor, visit>>

\* the image fires error: waitForImage resolves false, processImage returns
ImgError(i) ==
    /\ UNCHANGED <<popupVars, mlVars, response, unitVars>>
    /\ imgState[i] = "loading"
    /\ imgState' = [imgState EXCEPT ![i] = "broken"]
    /\ pc' = [r \in Runs |-> IF cur[r] = i /\ pc[r] = "waitImage" THEN "ended" ELSE pc[r]]
    /\ visit' = [r \in Runs |-> [j \in Images |->
                    IF j = i /\ cur[r] = i /\ pc[r] = "waitImage"
                    THEN "loadFailed" ELSE visit[r][j]]]
    /\ UNCHANGED <<mangaTlProcessing, mangaTlProcessed, run, cur, frames, objectUrl,
                   pending, results, ocr, anchor>>

\* one iteration of waitForLayout's loop, then createOverlayAnchor
LayoutPoll(r) ==
    /\ UNCHANGED <<popupVars, mlVars, response, unitVars>>
    /\ run[r] = "active" /\ pc[r] = "layout"
    /\ IF frames[r] <= LayoutFrames
       THEN \E sized \in BOOLEAN :
              IF sized
              THEN /\ anchor' = [anchor EXCEPT ![r][cur[r]] =
                                    [state |-> "attached", boxes |-> 0, border |-> "purple"]]
                   /\ pc' = [pc EXCEPT ![r] = "overlay"]
                   /\ frames' = [frames EXCEPT ![r] = 0]
                   /\ UNCHANGED <<imgState, mangaTlProcessing, mangaTlProcessed, run, cur,
                                  objectUrl, pending, results, ocr, visit>>
              ELSE /\ frames' = [frames EXCEPT ![r] = frames[r] + 1]
                   /\ UNCHANGED <<imgState, mangaTlProcessing, mangaTlProcessed, run, cur,
                                  pc, objectUrl, pending, results, ocr, anchor, visit>>
       ELSE EarlyReturn(r, "layoutTimeout", FALSE)

OverlayTimeoutDisposes_Not == FALSE

\* overlayAnchor.dispose() before the return for an overlay that got no size
OverlayTimeoutDisposes == TRUE

\* one iteration of waitForOverlay's loop
OverlayPoll(r) ==
    /\ UNCHANGED <<popupVars, mlVars, response, unitVars>>
    /\ run[r] = "active" /\ pc[r] = "overlay"
    /\ IF frames[r] <= OverlayFrames
       THEN \E sized \in BOOLEAN :
              IF sized
              THEN /\ pc' = [pc EXCEPT ![r] = "fetch"]
                   /\ frames' = [frames EXCEPT ![r] = 0]
                   /\ UNCHANGED <<imgState, mangaTlProcessing, mangaTlProcessed, run, cur,
                                  objectUrl, pending, results, ocr, anchor, visit>>
              ELSE /\ frames' = [frames EXCEPT ![r] = frames[r] + 1]
                   /\ UNCHANGED <<imgState, mangaTlProcessing, mangaTlProcessed, run, cur,
                                  pc, objectUrl, pending, results, ocr, anchor, visit>>
       ELSE EarlyReturn(r, "overlayTimeout", OverlayTimeoutDisposes)

Fetch_FailureThrows(r) ==
    /\ UNCHANGED <<popupVars, mlVars, response, unitVars>>
    /\ run[r] = "active" /\ pc[r] = "fetch"
    /\ \/ /\ objectUrl' = [objectUrl EXCEPT ![r] = TRUE]
          /\ pc' = [pc EXCEPT ![r] = "ocr"]
          /\ UNCHANGED <<imgState, mangaTlProcessing, mangaTlProcessed, run, cur, frames,
                         pending, results, ocr, anchor, visit>>
       \/ OnException(r)

\* fetch of the image bytes settles; a failure falls back to img.src
Fetch(r) ==
    /\ UNCHANGED <<popupVars, mlVars, response, unitVars>>
    /\ run[r] = "active" /\ pc[r] = "fetch"
    /\ \E ok \in BOOLEAN : objectUrl' = [objectUrl EXCEPT ![r] = ok]
    /\ pc' = [pc EXCEPT ![r] = "ocr"]
    /\ UNCHANGED <<imgState, mangaTlProcessing, mangaTlProcessed, run, cur, frames,
                   pending, results, ocr, anchor, visit>>

MinFallbackConfidence == 30

Confidences == {MinFallbackConfidence - 1, MinFallbackConfidence}

\* what performOCR and extractBlocks give for an image: whether the text is
\* empty, clean or garbage (isGarbage(cleanText)), the overall confidence,
\* and the number of regions extractBlocks returns; the results with
\* regions have a confidence under the fallback's threshold
OcrResults ==
    {NoOcr}
    \cup {[text |-> t, confidence |-> c, regions |-> 0] :
             t \in {"clean", "garbage"}, c \in Confidences}
    \cup {[text |-> "clean", confidence |-> MinFallbackConfidence - 1, regions |-> n] :
             n \in 1..MaxBlocks}

SkipFallback_ConfidenceOnly(o) == o.confidence < MinFallbackConfidence

\* the strict fallback test: no whole-image translation
SkipFallback(o) == o.confidence < MinFallbackConfidence \/ o.text = "garbage"

\* performOCR settles; extractBlocks; the translations are started
Ocr(r) ==
    /\ UNCHANGED <<popupVars, mlVars, response, unitVars>>
    /\ run[r] = "active" /\ pc[r] = "ocr"
    /\ \/ OnException(r)
       \/ \E o \in OcrResults :
             /\ IF o.text = "none"
                THEN LeaveTry(r, "noText", FALSE, 0, FALSE, "ended")
                ELSE IF o.regions = 0
                THEN IF SkipFallback(o)
                     THEN LeaveTry(r, "gated", FALSE, 0, FALSE, "ended")
                     ELSE /\ ocr' = [ocr EXCEPT ![r] = o]
                          /\ pc' = [pc EXCEPT ![r] = "trFallback"]
                          /\ pending' = [pending EXCEPT ![r] = 1]
                          /\ UNCHANGED <<imgState, mangaTlProcessing, mangaTlProcessed, run,
                                         cur, frames, objectUrl, results, anchor, visit>>
                ELSE /\ ocr' = [ocr EXCEPT ![r] = o]
                     /\ pc' = [pc EXCEPT ![r] = "trBlocks"]
                     /\ pending' = [pending EXCEPT ![r] = o.regions]
                     /\ UNCHANGED <<imgState, mangaTlProcessing, mangaTlProcessed, run,
                                    cur, frames, objectUrl, results, anchor, visit>>

TranslateOutcomes == {"str", "nul", "throw"}

\* the whole-image translateText settles: a box for a translated string
TrFallback(r) ==
    /\ UNCHANGED <<popupVars, mlVars, response, unitVars>>
    /\ run[r] = "active" /\ pc[r] = "trFallback"
    /\ \E out \in TranslateOutcomes :
         CASE out = "throw" -> OnException(r)
           [] out = "str" -> LeaveTry(r, "success", TRUE, 1, FALSE, "ended")
           [] OTHER -> LeaveTry(r, "success", TRUE, 0, FALSE, "ended")

\* one region's translateText settles; its own catch logs a throw and
\* returns null in place of the result
TrBlock(r) ==
    /\ UNCHANGED <<popupVars, mlVars, response, unitVars>>
    /\ run[r] = "active" /\ pc[r] = "trBlocks" /\ pending[r] > 0
    /\ pending' = [pending EXCEPT ![r] = pending[r] - 1]
    /\ \E out \in TranslateOutcomes :
         results' = [results EXCEPT ![r] =
                        CASE out = "str" -> [@ EXCEPT !.str = @ + 1]
                          [] out = "nul" -> [@ EXCEPT !.nul = @ + 1]
                          [] OTHER -> [@ EXCEPT !.thr = @ + 1]]
    /\ UNCHANGED <<imgState, mangaTlProcessing, mangaTlProcessed, run, cur, frames,
                   objectUrl, pc, ocr, anchor, visit>>

RenderedBoxes_All(res) == res.str + res.nul + res.thr

\* the loop over the results: a box for every result that is not the
\* catch's null, whatever its translatedText
RenderedBoxes(res) == res.str + res.nul

\* Promise.all resolves and the boxes are appended
TrAll(r) ==
    /\ UNCHANGED <<popupVars, mlVars, response, unitVars>>
    /\ run[r] = "active" /\ pc[r] = "trBlocks" /\ pending[r] = 0
    /\ LeaveTry(r, "success", TRUE, RenderedBoxes(results[r]), FALSE, "ended")

PageNext ==
    \/ \E r \in Runs : Trigger(r)
    \/ \E r \in Runs : Resume(r)
    \/ \E i \in Images : ImgLoad(i)
    \/ \E i \in Images : ImgError(i)
    \/ \E r \in Runs : LayoutPoll(r)
    \/ \E r \in Runs : OverlayPoll(r)
    \/ \E r \in Runs : Fetch(r)
    \/ \E r \in Runs : Ocr(r)
    \/ \E r \in Runs : TrFallback(r)
    \/ \E r \in Runs : TrBlock(r)
    \/ \E r \in Runs : TrAll(r)

(***************************************************************************)
(* The popup: handleTranslate and sendMessage.                             *)
(***************************************************************************)
MaxActions == 2     \* clicks on the translate button

maxRetries == 3

PopupInit ==
    /\ status = "idle"
    /\ progress = 0
    /\ logs = <<>>
    /\ step = "idle"
    /\ retryCount = 0
    /\ sends = 0
    /\ injections = 0
    /\ cause = "none"
    /\ lastFailure = "none"
    /\ manifestScripts \in BOOLEAN
    /\ sendResults = <<>>
    /\ actions = 0

Entry(level, message) == [level |-> level, message |-> message, attempt |-> 0]

AttemptEntry_ZeroBased(n) == [level |-> "info", message |-> "sending", attempt |-> n - 1]

\* the entry sendMessage logs before a send: attempt n of maxRetries
AttemptEntry(n) == [level |-> "info", message |-> "sending", attempt |-> n]

\* addLog calls, in order
AddLogs(es) == logs' = logs \o es

Terminal_NoLog(es, why) ==
    /\ UNCHANGED logs
    /\ status' = "error"
    /\ step' = "end"
    /\ cause' = why

\* the action ends in failure: error entries, setStatus('error')
Terminal(es, why) ==
    /\ AddLogs(es)
    /\ status' = "error"
    /\ step' = "end"
    /\ cause' = why

\* sendMessage's test of the retry bound
BoundReached(rc) == rc >= maxRetries

MayInject_UntilBound(rc) == rc < maxRetries

\* the no-receiver branch's test for injecting
MayInject(rc) == rc = 0

\* sendMessage up to the chrome.tabs.sendMessage call; before holds the
\* entries the caller logged in the same synchronous stretch
SendMessage(before) ==
    IF BoundReached(retryCount)
    THEN /\ Terminal(before \o <<Entry("error", "failedAfterMax")>>, "bound")
         /\ UNCHANGED <<sends, injections, retryCount, progress, actions>>
    ELSE /\ AddLogs(before \o <<AttemptEntry(retryCount + 1)>>)
         /\ sends' = sends + 1
         /\ step' = "sending"
         /\ UNCHANGED <<status, cause, injections, retryCount, progress, actions>>

\* the button's onClick: handleTranslate up to the await of chrome.tabs.query
Click ==
    /\ actions < MaxActions
    /\ status \notin {"loading", "translating"}
    /\ step \in {"idle", "end"}
    /\ actions' = actions + 1
    /\ status' = "loading"
    /\ progress' = 0
    /\ AddLogs(<<Entry("info", "starting")>>)
    /\ step' = "query"
    /\ retryCount' = 0
    /\ sends' = 0
    /\ injections' = 0
    /\ cause' = "none"
    /\ lastFailure' = "none"
    /\ sendResults' = <<>>
    /\ UNCHANGED <<manifestScripts, pageVars, mlVars, unitVars>>

\* chrome.tabs.query settles; the first sendMessage call
TabsQuery ==
    /\ step = "query"
    /\ \E res \in {"throws", "noTabId", "ok"} :
         /\ lastFailure' = IF res = "ok" THEN "none" ELSE res
         /\ CASE res = "throws" ->
                /\ Terminal(<<Entry("error", "exception")>>, "exception")
                /\ UNCHANGED <<sends, injections, retryCount, progress, actions>>
           [] res = "noTabId" ->
                /\ Terminal(<<Entry("info", "activeTab"), Entry("error", "noTabId")>>,
                            "noTabId")
                /\ UNCHANGED <<sends, injections, retryCount, progress, actions>>
           [] OTHER -> SendMessage(<<Entry("info", "activeTab")>>)
    /\ UNCHANGED <<manifestScripts, sendResults, pageVars, mlVars, unitVars>>

\* the callback's branch for a delivered request
OnResponse ==
    /\ AddLogs(<<Entry("success", "responded")>>)
    /\ status' = "translating"
    /\ step' = "progress"
    /\ cause' = "acked"
    /\ UNCHANGED <<sends, injections, retryCount, progress, actions>>

OnNoReceiver_NoIncrement ==
    IF MayInject(retryCount)
    THEN /\ UNCHANGED retryCount
         /\ IF manifestScripts
              THEN /\ AddLogs(<<Entry("info", "injecting")>>)
                   /\ injections' = injections + 1
                   /\ step' = "injecting"
                   /\ UNCHANGED <<status, cause>>
              ELSE /\ Terminal(<<Entry("info", "injecting"),
                                 Entry("error", "noContentScript")>>, "noManifest")
                   /\ UNCHANGED injections
         /\ UNCHANGED <<sends, progress, actions>>
    ELSE /\ Terminal(<<Entry("error", "stillNotResponding"),
                       Entry("error", "tryRefresh")>>, "stillNoReceiver")
         /\ UNCHANGED <<sends, injections, retryCount, progress, actions>>

\* the callback's branch for 'Receiving end does not exist'
OnNoReceiver ==
    IF MayInject(retryCount)
    THEN /\ retryCount' = retryCount + 1
         /\ IF manifestScripts
              THEN /\ AddLogs(<<Entry("info", "injecting")>>)
                   /\ injections' = injections + 1
                   /\ step' = "injecting"
                   /\ UNCHANGED <<status, cause>>
              ELSE /\ Terminal(<<Entry("info", "injecting"),
                                 Entry("error", "noContentScript")>>, "noManifest")
                   /\ UNCHANGED injections
         /\ UNCHANGED <<sends, progress, actions>>
    ELSE /\ Terminal(<<Entry("error", "stillNotResponding"),
                       Entry("error", "tryRefresh")>>, "stillNoReceiver")
         /\ UNCHANGED <<sends, injections, retryCount, progress, actions>>

OnOtherError_Retry ==
    /\ AddLogs(<<Entry("error", "chromeError")>>)
    /\ step' = "delay"
    /\ UNCHANGED <<status, cause, sends, injections, retryCount, progress, actions>>

\* the callback's branch for any other chrome.runtime.lastError
OnOtherError ==
    /\ Terminal(<<Entry("error", "chromeError")>>, "otherError")
    /\ UNCHANGED <<sends, injections, retryCount, progress, actions>>

\* the callback of chrome.tabs.sendMessage
SendCallback ==
    /\ step = "sending"
    /\ \E res \in {"ok", "noReceiver", "other"} :
         /\ lastFailure' = IF res = "ok" THEN "none" ELSE res
         /\ sendResults' = Append(sendResults, res)
         /\ CASE res = "ok" -> OnResponse
              [] res = "noReceiver" -> OnNoReceiver
              [] OTHER -> OnOtherError
    /\ UNCHANGED <<manifestScripts, pageVars, mlVars, unitVars>>

\* after the await of executeScript: the resend is scheduled
OnInjected ==
    /\ AddLogs(<<Entry("success", "injected")>>)
    /\ step' = "delay"
    /\ UNCHANGED <<status, cause, sends, injections, retryCount, progress, actions>>

\* the catch clause around the injection
OnInjectionError ==
    /\ Terminal(<<Entry("error", "injectionFailed"),
                  Entry("error", "pageMayNotAllow")>>, "injectFailed")
    /\ UNCHANGED <<sends, injections, retryCount, progress, actions>>

\* chrome.scripting.executeScript settles
InjectDone ==
    /\ step = "injecting"
    /\ \E ok \in BOOLEAN :
         /\ lastFailure' = IF ok THEN "none" ELSE "injectThrew"
         /\ IF ok THEN OnInjected ELSE OnInjectionError
    /\ UNCHANGED <<manifestScripts, sendResults, pageVars, mlVars, unitVars>>

\* the 500 ms timer fires: sendMessage again
Resend ==
    /\ step = "delay"
    /\ SendMessage(<<>>)
    /\ UNCHANGED <<lastFailure, manifestScripts, sendResults, pageVars, mlVars, unitVars>>

\* one tick of the progress interval
Tick ==
    /\ step = "progress"
    /\ progress' = progress + 10
    /\ IF progress + 10 >= 100
       THEN /\ status' = "done"
            /\ AddLogs(<<Entry("success", "completed")>>)
            /\ step' = "end"
            /\ cause' = "completed"
       ELSE UNCHANGED <<status, logs, step, cause>>
    /\ UNCHANGED <<sends, injections, retryCount, actions>>
    /\ UNCHANGED <<lastFailure, manifestScripts, sendResults, pageVars, mlVars, unitVars>>

PopupNext ==
    \/ Click
    \/ TabsQuery
    \/ SendCallback
    \/ InjectDone
    \/ Resend
    \/ Tick

(***************************************************************************)
(* Translation: src/unnamed/part_004.                                      *)
(*                                                                         *)
(* A source text is a sequence of words, joined by single spaces.  A       *)
(* translated text is a sequence of words that all have the same number    *)
(* of characters (width), joined by single spaces: two of its word windows *)
(* of the same length are the same characters exactly when they are the    *)
(* same words, and a window's text occurs in it only at word positions.    *)
(***************************************************************************)
MaxCalls == 2       \* translateText calls in the content script's process
MaxSrcLen == 3      \* words of a source text

Calls == 1..MaxCalls

SrcWords == {"The", "SQ", "of", "the"}

SrcTexts == UNION {[1..n -> SrcWords] : n \in 1..MaxSrcLen}

\* the texts of the calls that run side by side: one clean, one blacklisted
SampleTexts == {<<"the", "SQ">>, <<"The", "SQ", "of">>}

Text(ws, w) == [words |-> ws, width |-> w]

EmptyText == Text(<<>>, 0)

Rep(p, k) == [j \in 1..(k * Len(p)) |-> p[((j - 1) % Len(p)) + 1]]

\* translated texts a service or a model returns
Outputs ==
    { EmptyText,
      Text(<<"a">>, 5),                                   \* 5 characters
      Text(Rep(<<"a", "b">>, 4), 6),                      \* 8 words, 55 characters, two equal halves
      Text(Rep(<<"a", "a", "b", "b">>, 3), 6),            \* 12 words, a window three times
      Text(Rep(<<"a", "b", "b">>, 4), 6),                 \* 12 words, two equal halves
      Text(<<"b">> \o Rep(<<"a">>, 12), 6),               \* 13 words, a window three times
      Text(Rep(<<"a", "b">>, 7), 1) }                     \* 14 words, 27 characters

\* translated.length
CharLen(t) == IF Len(t.words) = 0 THEN 0 ELSE Len(t.words) * t.width + Len(t.words) - 1

\* text.includes(phrase), both as words
Includes(ws, phrase) ==
    \E p \in 1..Len(ws) :
        /\ p + Len(phrase) - 1 <= Len(ws)
        /\ SubSeq(ws, p, p + Len(phrase) - 1) = phrase

Blacklisted(ws) == Includes(ws, <<"SQ", "of", "the">>) \/ Includes(ws, <<"The", "SQ">>)

LANG_MAP == [jp |-> "ja", ja |-> "ja", en |-> "en", kr |-> "ko", ko |-> "ko",
             cn |-> "zh", zh |-> "zh", fr |-> "fr", es |-> "es"]

normalizeLang(code) == IF code \in DOMAIN LANG_MAP THEN LANG_MAP[code] ELSE code

FALLBACK_MODEL == "Xenova/m2m100_418M"

getModelId(src, tgt) ==
    IF <<src, tgt>> = <<"ja", "en">> THEN "Xenova/opus-mt-ja-en"
    ELSE IF <<src, tgt>> = <<"en", "ja">> THEN "Xenova/opus-mt-en-ja"
    ELSE IF <<src, tgt>> = <<"ko", "en">> THEN "Xenova/opus-mt-ko-en"
    ELSE IF <<src, tgt>> = <<"en", "ko">> THEN "Xenova/opus-mt-en-ko"
    ELSE IF <<src, tgt>> = <<"zh", "en">> THEN "Xenova/opus-mt-zh-en"
    ELSE IF <<src, tgt>> = <<"en", "zh">> THEN "Xenova/opus-mt-en-zh"
    ELSE FALLBACK_MODEL

\* the language codes the calls are made with, all towards English
SourceLangs == {"jp", "ja", "fr"}

ModelIds == {getModelId(normalizeLang(s), normalizeLang("en")) : s \in SourceLangs}

ModelOf(c) == getModelId(normalizeLang(calls[c].source), normalizeLang(calls[c].target))

\* words.slice(0, half) equals words.slice(half, half * 2), for more than minWords words
RepeatedHalves(ws, minWords) ==
    LET half == Len(ws) \div 2
    IN  /\ Len(ws) > minWords
        /\ SubSeq(ws, 1, half) = SubSeq(ws, half + 1, 2 * half)

GarbageHalving_Short(ws) == RepeatedHalves(ws, 2)

\* isGarbage's halving check
GarbageHalving(ws) == RepeatedHalves(ws, 6)

\* translateText's halving check
ValidatorHalving(ws) == RepeatedHalves(ws, 10)

NGramSize == 4

NGramRepeats == 3

\* translated.split(chunk).length - 1: the matches found left to right, each
\* search resuming after the previous match
RECURSIVE SplitMatches(_, _, _)
SplitMatches(ws, chunk, p) ==
    IF p + Len(chunk) - 1 > Len(ws) THEN 0
    ELSE IF SubSeq(ws, p, p + Len(chunk) - 1) = chunk
         THEN 1 + SplitMatches(ws, chunk, p + Len(chunk))
         ELSE SplitMatches(ws, chunk, p + 1)

\* the loop over i < words.length - 4, for more than 12 words
NGramLoop(ws) ==
    /\ Len(ws) > 12
    /\ \E i \in 0..(Len(ws) - NGramSize - 1) :
          SplitMatches(ws, SubSeq(ws, i + 1, i + NGramSize), 1) >= NGramRepeats

\* the validation of a local model's output: TRUE when translateText returns null
Rejected(t) == CharLen(t) > 50 /\ (ValidatorHalving(t.words) \/ NGramLoop(t.words))

\* if (remote) return remote
RemoteUsable_Never(reply) == FALSE

RemoteUsable(reply) == reply.kind = "data" /\ CharLen(reply.data) > 0

\* what the callback of chrome.runtime.sendMessage gets: no receiver or a
\* closed port (lastError), the background's catch ({success: false}), or
\* {success: true} with a translated text, which may be missing or empty
RemoteReplies ==
    {[kind |-> k, data |-> EmptyText] : k \in {"lastError", "bgError"}}
    \cup {[kind |-> "data", data |-> t] : t \in Outputs}

\* what the call has seen of the remote attempt
RemoteSeen(reply) ==
    IF reply.kind # "data" THEN reply.kind
    ELSE IF CharLen(reply.data) > 0 THEN "text" ELSE "empty"

IdleCall(t, s) ==
    [pc |-> "idle", text |-> t, source |-> s, target |-> "en", remote |-> "none",
     via |-> "none", out |-> EmptyText, cap |-> 0, load |-> 0, warned |-> FALSE,
     remoteCalls |-> 0, inits |-> 0, invokes |-> 0, result |-> "pending"]

UnusedCall == [IdleCall(<<"the">>, "ja") EXCEPT !.pc = "unused"]

\* translatorCache and loadCount belong to one process: the content script's
\* when calls run, the popup's when the Download button is clicked
MlInit ==
    /\ translatorCache = [m \in ModelIds |-> 0]
    /\ loadCount = 0
    /\ modelReady = FALSE

Call_NoCheck(c) ==
    /\ calls[c].pc = "idle"
    /\ calls' = [calls EXCEPT ![c].pc = "remote", ![c].remoteCalls = @ + 1]
    /\ UNCHANGED <<translatorCache, loadCount, clicks, modelReady>>
    /\ UNCHANGED <<pageVars, popupVars, unitVars>>

\* the text check and the remote request of translateText
Call(c) ==
    /\ calls[c].pc = "idle"
    /\ IF Blacklisted(calls[c].text)
       THEN calls' = [calls EXCEPT ![c].pc = "done", ![c].result = "null"]
       ELSE calls' = [calls EXCEPT ![c].pc = "remote", ![c].remoteCalls = @ + 1]
    /\ UNCHANGED <<translatorCache, loadCount, clicks, modelReady>>
    /\ UNCHANGED <<pageVars, popupVars, unitVars>>

\* initTranslator up to its await: the cached capability, or a load of its own
CacheHit(m) == translatorCache[m] # 0

InitTranslator(c, seen) ==
    IF CacheHit(ModelOf(c))
    THEN /\ calls' = [calls EXCEPT ![c] = [seen EXCEPT !.pc = "haveModel",
                                                       !.inits = @ + 1,
                                                       !.cap = translatorCache[ModelOf(c)]]]
         /\ UNCHANGED loadCount
    ELSE /\ calls' = [calls EXCEPT ![c] = [seen EXCEPT !.pc = "loading",
                                                       !.inits = @ + 1,
                                                       !.load = loadCount + 1]]
         /\ loadCount' = loadCount + 1

\* translateViaLibre resolves: its text is returned, or the local model is asked for
RemoteSettles(c) ==
    /\ calls[c].pc = "remote"
    /\ \E reply \in RemoteReplies :
          LET seen == [calls[c] EXCEPT !.remote = RemoteSeen(reply),
                                       !.warned = (reply.kind = "bgError")]
          IN  IF RemoteUsable(reply)
              THEN /\ calls' = [calls EXCEPT ![c] = [seen EXCEPT !.pc = "done",
                                                                 !.via = "remote",
                                                                 !.out = reply.data,
                                                                 !.result = "text"]]
                   /\ UNCHANGED loadCount
              ELSE InitTranslator(c, seen)
    /\ UNCHANGED <<translatorCache, clicks, modelReady>>
    /\ UNCHANGED <<pageVars, popupVars, unitVars>>

\* pipeline() settles: the capability is stored and returned, or the call throws
LoadSettles(c) ==
    /\ calls[c].pc = "loading"
    /\ \/ /\ translatorCache' = [translatorCache EXCEPT ![ModelOf(c)] = calls[c].load]
          /\ calls' = [calls EXCEPT ![c].pc = "haveModel", ![c].cap = calls[c].load]
       \/ /\ calls' = [calls EXCEPT ![c].pc = "done", ![c].result = "threw"]
          /\ UNCHANGED translatorCache
    /\ UNCHANGED <<loadCount, clicks, modelReady>>
    /\ UNCHANGED <<pageVars, popupVars, unitVars>>

\* model(text)
Invoke(c) ==
    /\ calls[c].pc = "haveModel"
    /\ calls' = [calls EXCEPT ![c].pc = "invoking", ![c].invokes = @ + 1]
    /\ UNCHANGED <<translatorCache, loadCount, clicks, modelReady>>
    /\ UNCHANGED <<pageVars, popupVars, unitVars>>

\* the model's output is validated and returned, or the model throws
InvokeSettles(c) ==
    /\ calls[c].pc = "invoking"
    /\ \/ \E t \in Outputs :
             calls' = [calls EXCEPT ![c].pc = "done",
                                    ![c].via = "local",
                                    ![c].out = t,
                                    ![c].result = IF Rejected(t) THEN "null" ELSE "text"]
       \/ calls' = [calls EXCEPT ![c].pc = "done", ![c].result = "threw"]
    /\ UNCHANGED <<translatorCache, loadCount, clicks, modelReady>>
    /\ UNCHANGED <<pageVars, popupVars, unitVars>>

TranslateNext ==
    \/ \E c \in Calls : Call(c)
    \/ \E c \in Calls : RemoteSettles(c)
    \/ \E c \in Calls : LoadSettles(c)
    \/ \E c \in Calls : Invoke(c)
    \/ \E c \in Calls : InvokeSettles(c)

(***************************************************************************)
(* The popup's Download / Re-download button: src/unnamed/part_001.        *)
(***************************************************************************)
MaxClicks == 3      \* clicks on the Download button

Clicks == 1..MaxClicks

IdleClick == [pc |-> "idle", force |-> FALSE, load |-> 0, clearedAt |-> 0, ok |-> FALSE]

\* initTranslator() without arguments
DefaultModel == getModelId(normalizeLang("ja"), normalizeLang("en"))

popupRest == <<status, progress, step, retryCount, sends, injections, cause,
               lastFailure, manifestScripts, sendResults, actions>>

\* the handler up to its await: forceDownloadModel clears the cache and calls
\* initTranslator when the model is shown as ready, else initTranslator alone;
\* a cached capability lets the handler run to its end
DownloadClick(k) ==
    /\ clicks[k].pc = "idle"
    /\ \A j \in Clicks : j < k => clicks[j].pc # "idle"
    /\ IF modelReady
       THEN /\ translatorCache' = [m \in ModelIds |-> 0]
            /\ loadCount' = loadCount + 1
            /\ clicks' = [clicks EXCEPT ![k] = [pc |-> "loading", force |-> TRUE,
                                                load |-> loadCount + 1,
                                                clearedAt |-> loadCount,
                                                ok |-> FALSE]]
            /\ AddLogs(<<Entry("info", "redownloading")>>)
            /\ UNCHANGED modelReady
       ELSE IF translatorCache[DefaultModel] # 0
            THEN /\ clicks' = [clicks EXCEPT ![k].pc = "done", ![k].ok = TRUE]
                 /\ modelReady' = TRUE
                 /\ AddLogs(<<Entry("info", "downloading"), Entry("success", "modelReady")>>)
                 /\ UNCHANGED <<translatorCache, loadCount>>
            ELSE /\ loadCount' = loadCount + 1
                 /\ clicks' = [clicks EXCEPT ![k].pc = "loading", ![k].load = loadCount + 1]
                 /\ AddLogs(<<Entry("info", "downloading")>>)
                 /\ UNCHANGED <<translatorCache, modelReady>>
    /\ UNCHANGED <<calls, popupRest, pageVars, unitVars>>

\* pipeline() settles and the handler runs to its end
DownloadSettles(k) ==
    /\ clicks[k].pc = "loading"
    /\ \/ /\ translatorCache' = [translatorCache EXCEPT ![DefaultModel] = clicks[k].load]
          /\ modelReady' = TRUE
          /\ AddLogs(<<Entry("success", "modelReady")>>)
          /\ clicks' = [clicks EXCEPT ![k].pc = "done", ![k].ok = TRUE]
       \/ /\ modelReady' = FALSE
          /\ AddLogs(<<Entry("error", "downloadFailed")>>)
          /\ clicks' = [clicks EXCEPT ![k].pc = "done"]
          /\ UNCHANGED translatorCache
    /\ UNCHANGED <<calls, loadCount, popupRest, pageVars, unitVars>>

DownloadNext ==
    \/ \E k \in Clicks : DownloadClick(k)
    \/ \E k \in Clicks : DownloadSettles(k)

\* no translation and no download
MlIdle ==
    /\ MlInit
    /\ calls = [c \in Calls |-> UnusedCall]
    /\ clicks = [k \in Clicks |-> IdleClick]

(***************************************************************************)
(* One overlay anchor: createOverlayAnchor in src/src/content/index.ts.    *)
(* The state is that of the closure: the element, rafId of the per-frame   *)
(* loop, the pending flag of syncOnce, the ResizeObserver and the window   *)
(* listeners; bounds is the rectangle syncBounds wrote last.               *)
(***************************************************************************)
NumRects == 3           \* rectangles the image can have on the screen
MaxAnchorFrames == 3    \* frames of the per-frame loop
MaxDisposes == 3        \* calls of dispose

Rects == 1..NumRects

\* the closure right after createOverlayAnchor has returned
NewAnchor ==
    [el |-> "attached", rafId |-> 1, pending |-> FALSE, observing |-> TRUE,
     listening |-> TRUE, bounds |-> 0, disposeCalls |-> 0]

AnchorInit ==
    /\ overlayAnchor = NewAnchor
    /\ imgRect \in Rects

\* syncOnce: one requestAnimationFrame for any number of notifications
syncOnce(a) == [a EXCEPT !.pending = TRUE]

\* the image moves or changes size: the scroll and resize listeners and the
\* ResizeObserver call syncOnce while they are registered
LayoutChange ==
    /\ \E rect \in Rects \ {imgRect} : imgRect' = rect
    /\ overlayAnchor' = IF overlayAnchor.listening \/ overlayAnchor.observing
                        THEN syncOnce(overlayAnchor)
                        ELSE overlayAnchor
    /\ UNCHANGED <<extractVars, helperVars>>
    /\ UNCHANGED <<pageVars, popupVars, mlVars>>

\* the frame callback requested by syncOnce: pending = false; syncBounds()
AnchorSync ==
    /\ overlayAnchor.pending
    /\ overlayAnchor' = [overlayAnchor EXCEPT !.pending = FALSE, !.bounds = imgRect]
    /\ UNCHANGED <<imgRect, extractVars, helperVars>>
    /\ UNCHANGED <<pageVars, popupVars, mlVars>>

\* loop: syncBounds(); rafId = requestAnimationFrame(loop)
AnchorLoop ==
    /\ overlayAnchor.rafId # 0
    /\ overlayAnchor.rafId <= MaxAnchorFrames
    /\ overlayAnchor' = [overlayAnchor EXCEPT !.bounds = imgRect, !.rafId = @ + 1]
    /\ UNCHANGED <<imgRect, extractVars, helperVars>>
    /\ UNCHANGED <<pageVars, popupVars, mlVars>>

Dispose_KeepLoop(a) ==
    [a EXCEPT !.observing = FALSE, !.listening = FALSE, !.el = "removed"]

\* dispose: the frame request cancelled and rafId nulled, the observer
\* disconnected, the listeners removed, the element removed
Dispose(a) ==
    [a EXCEPT !.rafId = 0, !.observing = FALSE, !.listening = FALSE, !.el = "removed"]

AnchorDispose ==
    /\ overlayAnchor.disposeCalls < MaxDisposes
    /\ overlayAnchor' = [Dispose(overlayAnchor) EXCEPT !.disposeCalls = @ + 1]
    /\ UNCHANGED <<imgRect, extractVars, helperVars>>
    /\ UNCHANGED <<pageVars, popupVars, mlVars>>

AnchorNext ==
    \/ LayoutChange
    \/ AnchorSync
    \/ AnchorLoop
    \/ AnchorDispose

(***************************************************************************)
(* isGarbage and extractBlocks: src/src/content/index.ts.  A string is the *)
(* sequence of its characters.                                             *)
(***************************************************************************)
MaxItems == 2     \* regions of one tier of a recognition result

\* the characters of the model outside the class [a-zA-Z0-9...] of isGarbage
SymbolChars == {" ", "!"}

IsWordChar(c) == c \notin SymbolChars

\* text.replace(/\s+/g, ' ')
RECURSIVE CollapseSpaces(_)
CollapseSpaces(t) ==
    IF Len(t) < 2 THEN t
    ELSE IF t[1] = " " /\ t[2] = " " THEN CollapseSpaces(Tail(t))
    ELSE <<t[1]>> \o CollapseSpaces(Tail(t))

\* .trim(), of a string without two spaces in a row
Trim(t) ==
    LET from == IF Len(t) > 0 /\ t[1] = " " THEN 2 ELSE 1
        to == IF Len(t) > 0 /\ t[Len(t)] = " " THEN Len(t) - 1 ELSE Len(t)
    IN  SubSeq(t, from, to)

normalize(t) == Trim(CollapseSpaces(t))

\* text.split(' ')
RECURSIVE split(_)
split(t) ==
    IF \A k \in 1..Len(t) : t[k] # " " THEN <<t>>
    ELSE LET p == CHOOSE k \in 1..Len(t) : t[k] = " " /\ \A j \in 1..(k - 1) : t[j] # " "
         IN  <<SubSeq(t, 1, p - 1)>> \o split(SubSeq(t, p + 1, Len(t)))

isGarbage_SymbolsOnly(t) ==
    \/ Len(t) = 0
    \/ \A k \in 1..Len(t) : ~IsWordChar(t[k])

isGarbage(t) ==
    \/ Len(t) = 0
    \/ Len(t) < 2 /\ ~\E k \in 1..Len(t) : IsWordChar(t[k])
    \/ \A k \in 1..Len(t) : ~IsWordChar(t[k])
    \/ Len(t) > 3 /\ \A k \in 1..Len(t) : t[k] = t[1]
    \/ Includes(t, <<"S", "Q", " ", "o", "f", " ", "t", "h", "e">>)
    \/ Includes(t, <<"T", "h", "e", " ", "S", "Q">>)
    \/ GarbageHalving(split(t))

MinConfidence == 20        \* b.confidence < 20
DefaultImageSize == 1000   \* imageSize?.width || 1000
MaxAreaTenths == 8         \* blockArea > imgArea * 0.8
MaxRatio == 60             \* ratio > 60
MinRatioInverse == 50      \* ratio < 0.02

TierOrder == <<"blocks", "paragraphs", "lines", "words">>

NoBBox == [present |-> FALSE, x0 |-> 0, y0 |-> 0, x1 |-> 0, y1 |-> 0]

BBox(w, h) == [present |-> TRUE, x0 |-> 0, y0 |-> 0, x1 |-> w, y1 |-> h]

NoImageSize == [present |-> FALSE, width |-> 0, height |-> 0]

SampleImageSize == [present |-> TRUE, width |-> 100, height |-> 100]

ImageSizes == {NoImageSize, SampleImageSize}

\* widths and heights of the sample boxes
Spans == {0, 1, 90, 100}

\* "", " ", "ab", "a  b", "!!", "aaaa"
SampleStrings ==
    {<<>>, <<" ">>, <<"a", "b">>, <<"a", " ", " ", "b">>, <<"!", "!">>,
     <<"a", "a", "a", "a">>}

Item(box, txt, conf, tier) ==
    [bbox |-> box, text |-> txt, confidence |-> conf, level |-> tier]

\* the regions a recognizer can report in one tier, for the filters
FilterItems(tier) ==
    {Item(BBox(90, 50), txt, conf, tier) :
        txt \in SampleStrings, conf \in {MinConfidence - 1, MinConfidence}}
    \cup {Item(BBox(w, h), <<"a", "b">>, MinConfidence, tier) : w \in Spans, h \in Spans}
    \cup {Item(NoBBox, <<"a", "b">>, MinConfidence, tier)}

\* the regions a recognizer can report in one tier, for the cascade
TierItems(tier) ==
    {Item(BBox(90, 50), <<"a", "b">>, conf, tier) :
        conf \in {MinConfidence - 1, MinConfidence}}

\* the lists of at most MaxItems regions
ListsOf(S) == UNION {[1..n -> S] : n \in 0..MaxItems}

\* the map step of mapItems
Normalized(item) == [item EXCEPT !.text = normalize(@)]

\* the filter step of mapItems
Keep(b, size) ==
    LET w == b.bbox.x1 - b.bbox.x0
        h == b.bbox.y1 - b.bbox.y0
        imgWidth == IF size.present /\ size.width # 0 THEN size.width ELSE DefaultImageSize
        imgHeight == IF size.present /\ size.height # 0 THEN size.height ELSE DefaultImageSize
    IN  /\ ~(Len(b.text) = 0 \/ ~b.bbox.present)
        /\ ~(b.confidence < MinConfidence)
        /\ ~isGarbage(b.text)
        /\ ~(10 * (w * h) > (imgWidth * imgHeight) * MaxAreaTenths)
        /\ ~(w > 0 /\ h > 0 /\ (w > MaxRatio * h \/ MinRatioInverse * w < h))

mapItems(items, size) ==
    SelectSeq([k \in 1..Len(items) |-> Normalized(items[k])], LAMBDA b : Keep(b, size))

extractBlocks_Merge(res) ==
    mapItems(res.blocks, res.imageSize) \o mapItems(res.paragraphs, res.imageSize)
        \o mapItems(res.lines, res.imageSize) \o mapItems(res.words, res.imageSize)

extractBlocks(res) ==
    LET fromBlocks == mapItems(res.blocks, res.imageSize)
        fromParagraphs == IF Len(fromBlocks) = 0
                          THEN mapItems(res.paragraphs, res.imageSize) ELSE fromBlocks
        fromLines == IF Len(fromParagraphs) = 0
                     THEN mapItems(res.lines, res.imageSize) ELSE fromParagraphs
    IN  IF Len(fromLines) = 0 THEN mapItems(res.words, res.imageSize) ELSE fromLines

NotExtracted == [done |-> FALSE, items |-> <<>>]

\* recognition results that differ in what each tier holds
TiersInit ==
    /\ \E b \in ListsOf(TierItems("blocks")), p \in ListsOf(TierItems("paragraphs")),
          l \in ListsOf(TierItems("lines")), w \in ListsOf(TierItems("words")) :
            ocrResult = [blocks |-> b, paragraphs |-> p, lines |-> l, words |-> w,
                         imageSize |-> SampleImageSize]
    /\ extracted = NotExtracted

\* recognition results that differ in the regions of one tier
FilterInit ==
    /\ \E b \in ListsOf(FilterItems("blocks")), size \in ImageSizes :
            ocrResult = [blocks |-> b, paragraphs |-> <<>>, lines |-> <<>>,
                         words |-> <<>>, imageSize |-> size]
    /\ extracted = NotExtracted

\* one call of extractBlocks
ExtractBlocks ==
    /\ ~extracted.done
    /\ extracted' = [done |-> TRUE, items |-> extractBlocks(ocrResult)]
    /\ UNCHANGED <<anchorVars, ocrResult, helperVars>>
    /\ UNCHANGED <<pageVars, popupVars, mlVars>>

(***************************************************************************)
(* isGarbage called on its own.                                            *)
(***************************************************************************)
MaxTextLen == 4    \* characters of a sample string
MaxWords == 7      \* words of a sample sentence

Alphabet == {"a", "b", " ", "!"}

SampleWords == {<<"a">>, <<"b">>}

\* the strings of at most MaxTextLen characters
ShortStrings == UNION {[1..n -> Alphabet] : n \in 0..MaxTextLen}

\* words.join(' ')
RECURSIVE Join(_)
Join(ws) ==
    IF Len(ws) = 0 THEN <<>>
    ELSE IF Len(ws) = 1 THEN ws[1]
    ELSE ws[1] \o <<" ">> \o Join(Tail(ws))

\* sentences of at most MaxWords words, and the blacklisted phrases in a sentence
SampleSentences ==
    UNION {[1..n -> SampleWords] : n \in 1..MaxWords}
    \cup {<<<<"S", "Q">>, <<"o", "f">>, <<"t", "h", "e">>>>,
          <<<<"T", "h", "e">>, <<"S", "Q">>, <<"a">>>>}

\* an argument of isGarbage: its characters, and the words it was joined from
GarbageArgs ==
    {[text |-> t, words |-> <<>>, done |-> FALSE, result |-> FALSE] : t \in ShortStrings}
    \cup {[text |-> Join(ws), words |-> ws, done |-> FALSE, result |-> FALSE] :
            ws \in SampleSentences}

NotJudged == [text |-> <<>>, words |-> <<>>, done |-> FALSE, result |-> FALSE]

GarbageIdle == garbage = NotJudged

GarbageInit == garbage \in GarbageArgs

\* one call of isGarbage
IsGarbage ==
    /\ ~garbage.done
    /\ garbage' = [garbage EXCEPT !.done = TRUE, !.result = isGarbage(garbage.text)]
    /\ UNCHANGED <<anchorVars, extractVars, inflated, overlayBox, background>>
    /\ UNCHANGED <<pageVars, popupVars, mlVars>>

(***************************************************************************)
(* getScaleFactors and inflateBBox called for one region.  The padding is  *)
(* a fraction of a pixel: the coordinates inflateBBox returns are counted  *)
(* in 25ths of a pixel, in which 0.08 px is 2.                             *)
(***************************************************************************)
PerPixel == 25     \* units of the returned coordinates in one pixel
MinPad == 6        \* Math.max(6, ...)
PadNumerator == 2  \* 0.08 = PadNumerator / PerPixel

\* widths (= heights) of the sample bitmaps
BitmapSizes == {100, 200}

\* x and y coordinates of the sample boxes
Coordinates == {0, 10, 110, 200}

Min(a, b) == IF a < b THEN a ELSE b

Max(a, b) == IF a > b THEN a ELSE b

FirstNonZero(a, b, c) == IF a # 0 THEN a ELSE IF b # 0 THEN b ELSE IF c # 0 THEN c ELSE 1

\* imageSize?.width || img.naturalWidth || overlay.clientWidth || 1
getScaleFactors(size, natural, client) ==
    [sourceWidth |-> FirstNonZero(IF size.present THEN size.width ELSE 0, natural.width, client.width),
     sourceHeight |-> FirstNonZero(IF size.present THEN size.height ELSE 0, natural.height, client.height)]

inflateBBox(bbox, imgW, imgH) ==
    LET w == bbox.x1 - bbox.x0
        h == bbox.y1 - bbox.y0
        pad == Max(MinPad * PerPixel, Min(w, h) * PadNumerator)
    IN  [x0 |-> Max(0, bbox.x0 * PerPixel - pad),
         y0 |-> Max(0, bbox.y0 * PerPixel - pad),
         x1 |-> Min(imgW * PerPixel, bbox.x1 * PerPixel + pad),
         y1 |-> Min(imgH * PerPixel, bbox.y1 * PerPixel + pad)]

Size(w, h) == [width |-> w, height |-> h]

\* the boxes a recognizer reports in a bitmap of the given size
BoxesWithin(s) ==
    {box \in {[present |-> TRUE, x0 |-> a, y0 |-> b, x1 |-> c, y1 |-> e] :
                a \in Coordinates, b \in Coordinates, c \in Coordinates, e \in Coordinates} :
        /\ box.x0 <= box.x1 /\ box.x1 <= s
        /\ box.y0 <= box.y1 /\ box.y1 <= s}

NoBox == [x0 |-> 0, y0 |-> 0, x1 |-> 0, y1 |-> 0]

\* a region extractBlocks returns for a recognized bitmap, the image size the
\* recognizer reports or not, and the image's and the overlay's sizes
InflateArgs ==
    {[bbox |-> box, bitmap |-> s, imageSize |-> size, natural |-> Size(n, n),
      client |-> Size(50, 50), done |-> FALSE, sourceWidth |-> 0, sourceHeight |-> 0,
      out |-> NoBox] :
        s \in BitmapSizes, box \in BoxesWithin(200), n \in BitmapSizes,
        size \in {NoImageSize} \cup {[present |-> TRUE, width |-> m, height |-> m] : m \in BitmapSizes}}

InflateInit ==
    /\ inflated \in InflateArgs
    /\ inflated.bbox \in BoxesWithin(inflated.bitmap)
    /\ (inflated.imageSize.present => inflated.imageSize.width = inflated.bitmap)
    /\ Keep(Item(inflated.bbox, <<"a", "b">>, MinConfidence, "blocks"), inflated.imageSize)

NotInflated ==
    [bbox |-> NoBBox, bitmap |-> 0, imageSize |-> NoImageSize, natural |-> Size(0, 0),
     client |-> Size(0, 0), done |-> FALSE, sourceWidth |-> 0, sourceHeight |-> 0,
     out |-> NoBox]

InflateIdle == inflated = NotInflated

\* processImage's calls of getScaleFactors and inflateBBox for one region
InflateBBox ==
    /\ ~inflated.done
    /\ LET f == getScaleFactors(inflated.imageSize, inflated.natural, inflated.client)
       IN  inflated' = [inflated EXCEPT !.done = TRUE,
                                        !.sourceWidth = f.sourceWidth,
                                        !.sourceHeight = f.sourceHeight,
                                        !.out = inflateBBox(inflated.bbox, f.sourceWidth, f.sourceHeight)]
    /\ UNCHANGED <<anchorVars, extractVars, garbage, overlayBox, background>>
    /\ UNCHANGED <<pageVars, popupVars, mlVars>>

(***************************************************************************)
(* makeOverlayBox called on its own, with the overlay's width and height   *)
(* as processImage passes them.  minHeight = 0 stands for an argument that *)
(* is undefined or 0.                                                      *)
(***************************************************************************)
MinBoxWidth == 60    \* Math.max(60, ...)

Positions == {0, 40, 100}

Widths == {0, 30, 80, 200}

MinHeights == {0, 30, 200}

OverlaySizes == {50, 100}

makeOverlayBox(x, y, width, minHeight, containerWidth, containerHeight) ==
    LET clampedWidth == Max(MinBoxWidth, Min(width, containerWidth))
    IN  [left |-> Max(0, Min(x, containerWidth - clampedWidth)),
         top |-> Max(0, Min(y, containerHeight - minHeight)),
         width |-> clampedWidth,
         minHeight |-> IF minHeight # 0 THEN Min(minHeight, containerHeight) ELSE 0]

NoStyle == [left |-> 0, top |-> 0, width |-> 0, minHeight |-> 0]

BoxArgs ==
    [x : Positions, y : Positions, width : Widths, minHeight : MinHeights,
     containerWidth : OverlaySizes, containerHeight : OverlaySizes,
     done : {FALSE}, style : {NoStyle}]

NoBoxCall ==
    [x |-> 0, y |-> 0, width |-> 0, minHeight |-> 0, containerWidth |-> 0,
     containerHeight |-> 0, done |-> FALSE, style |-> NoStyle]

BoxIdle == overlayBox = NoBoxCall

BoxInit == overlayBox \in BoxArgs

\* one call of makeOverlayBox
MakeOverlayBox ==
    /\ ~overlayBox.done
    /\ overlayBox' = [overlayBox EXCEPT
                        !.done = TRUE,
                        !.style = makeOverlayBox(overlayBox.x, overlayBox.y, overlayBox.width,
                                                 overlayBox.minHeight, overlayBox.containerWidth,
                                                 overlayBox.containerHeight)]
    /\ UNCHANGED <<anchorVars, extractVars, garbage, inflated, background>>
    /\ UNCHANGED <<pageVars, popupVars, mlVars>>

(***************************************************************************)
(* The background script's TRANSLATE_REMOTE handler                        *)
(* (src/src/background/index.ts) and translateViaLibre, the sender of the  *)
(* request (src/unnamed/part_004).  Every request has its own record: the  *)
(* position of the handler, the response sent and the sender's promise.    *)
(***************************************************************************)
MaxRequests == 2    \* TRANSLATE_REMOTE requests

Requests == 1..MaxRequests

NoResponse == [success |-> FALSE, data |-> "none", error |-> "none"]

IdleRequest ==
    [pc |-> "idle", contentType |-> "none", cause |-> "none", response |-> NoResponse,
     responses |-> 0, settled |-> "pending", value |-> "none"]

BackgroundIdle == background = [q \in Requests |-> IdleRequest]

\* fetch settles: a network error, or a response with a status and a
\* content type
FetchOutcomes ==
    {[kind |-> "networkError", ok |-> FALSE, contentType |-> "none"]}
    \cup {[kind |-> "response", ok |-> o, contentType |-> t] :
            o \in BOOLEAN, t \in {"application/json", "text/html"}}

\* response.text() settles: the read fails, or the body is text that
\* JSON.parse rejects, the JSON null, an object without translatedText, or an
\* object with it
Bodies == {"readError", "unparsable", "null", "noField", "translated"}

\* translateViaLibre: chrome.runtime.sendMessage with a callback
SendRemote(q) ==
    /\ background[q].pc = "idle"
    /\ background' = [background EXCEPT ![q].pc = "sent"]
    /\ UNCHANGED <<anchorVars, extractVars, garbage, inflated, overlayBox>>
    /\ UNCHANGED <<pageVars, popupVars, mlVars>>

\* the callback of sendMessage: lastError, response.success, or neither
OnReply(req, lastError) ==
    [req EXCEPT !.pc = "returned",
                !.settled = "resolved",
                !.value = IF lastError THEN "null"
                          ELSE IF req.response.success THEN req.response.data
                          ELSE "null"]

\* the request reaches the listener, which starts fetch and returns true; or
\* there is no listener to receive it and the callback runs with lastError
Receive(q) ==
    /\ background[q].pc = "sent"
    /\ \/ background' = [background EXCEPT ![q].pc = "fetching"]
       \/ background' = [background EXCEPT ![q] = OnReply(@, TRUE)]
    /\ UNCHANGED <<anchorVars, extractVars, garbage, inflated, overlayBox>>
    /\ UNCHANGED <<pageVars, popupVars, mlVars>>

OnThrow_Unhandled(req, message) == [req EXCEPT !.pc = "unhandled", !.cause = message]

\* .catch: sendResponse({success: false, error})
OnThrow(req, message) ==
    [req EXCEPT !.pc = "responded",
                !.cause = message,
                !.response = [success |-> FALSE, data |-> "none", error |-> message],
                !.responses = @ + 1]

\* the first callback of .then up to its await of response.text()
FetchResolves(q) ==
    /\ background[q].pc = "fetching"
    /\ \E f \in FetchOutcomes :
          background' = [background EXCEPT ![q] =
              IF f.kind = "networkError" THEN OnThrow(@, "network")
              ELSE IF ~f.ok THEN OnThrow(@, "http")
              ELSE [@ EXCEPT !.pc = "reading", !.contentType = f.contentType]]
    /\ UNCHANGED <<anchorVars, extractVars, garbage, inflated, overlayBox>>
    /\ UNCHANGED <<pageVars, popupVars, mlVars>>

\* the rest of the callback: content type, JSON.parse, sendResponse
BodyRead(q) ==
    /\ background[q].pc = "reading"
    /\ \E body \in Bodies :
          background' = [background EXCEPT ![q] =
              IF body = "readError" THEN OnThrow(@, "body")
              ELSE IF @.contentType # "application/json" THEN OnThrow(@, "nonJson")
              ELSE IF body = "unparsable" THEN OnThrow(@, "parse")
              ELSE IF body = "null" THEN OnThrow(@, "type")
              ELSE [@ EXCEPT !.pc = "responded",
                             !.cause = "ok",
                             !.response = [success |-> TRUE,
                                           data |-> IF body = "translated" THEN "text"
                                                    ELSE "undefined",
                                           error |-> "none"],
                             !.responses = @ + 1]]
    /\ UNCHANGED <<anchorVars, extractVars, garbage, inflated, overlayBox>>
    /\ UNCHANGED <<pageVars, popupVars, mlVars>>

\* the response reaches the sender's callback
Reply(q) ==
    /\ background[q].pc = "responded"
    /\ background' = [background EXCEPT ![q] = OnReply(@, FALSE)]
    /\ UNCHANGED <<anchorVars, extractVars, garbage, inflated, overlayBox>>
    /\ UNCHANGED <<pageVars, popupVars, mlVars>>

BackgroundNext ==
    \/ \E q \in Requests : SendRemote(q)
    \/ \E q \in Requests : Receive(q)
    \/ \E q \in Requests : FetchResolves(q)
    \/ \E q \in Requests : BodyRead(q)
    \/ \E q \in Requests : Reply(q)

AnchorIdle == overlayAnchor = NewAnchor /\ imgRect = 1

ExtractIdle ==
    /\ ocrResult = [blocks |-> <<>>, paragraphs |-> <<>>, lines |-> <<>>,
                    words |-> <<>>, imageSize |-> NoImageSize]
    /\ extracted = NotExtracted

HelperIdle == GarbageIdle /\ InflateIdle /\ BoxIdle /\ BackgroundIdle

\* no unit is looked at
UnitIdle == AnchorIdle /\ ExtractIdle /\ HelperIdle

\* the page side alone: the popup stays as constructed
InitPage == PageInit /\ PopupInit /\ manifestScripts /\ MlIdle /\ UnitIdle

\* the popup alone: no request reaches the page's listener
InitPopup == PageInit /\ PopupInit /\ imgState = [i \in Images |-> "loaded"] /\ MlIdle /\ UnitIdle

SpecPage == InitPage /\ [][PageNext]_vars

SpecPopup == InitPopup /\ [][PopupNext]_vars

\* one translateText call, with any source text
InitTranslateOne ==
    /\ PageInit /\ PopupInit /\ manifestScripts /\ imgState = [i \in Images |-> "loaded"]
    /\ MlInit /\ UnitIdle
    /\ \E t \in SrcTexts : \E s \in SourceLangs :
          calls = [c \in Calls |-> IF c = 1 THEN IdleCall(t, s) ELSE UnusedCall]
    /\ clicks = [k \in Clicks |-> IdleClick]

\* the translateText calls of one content script, side by side
InitTranslate ==
    /\ PageInit /\ PopupInit /\ manifestScripts /\ imgState = [i \in Images |-> "loaded"]
    /\ MlInit /\ UnitIdle
    /\ calls \in [Calls -> {IdleCall(t, s) : t \in SampleTexts, s \in SourceLangs}]
    /\ clicks = [k \in Clicks |-> IdleClick]

\* the popup's Download button
InitDownload ==
    /\ PageInit /\ PopupInit /\ manifestScripts /\ imgState = [i \in Images |-> "loaded"]
    /\ MlIdle /\ UnitIdle

SpecTranslateOne == InitTranslateOne /\ [][TranslateNext]_vars

SpecTranslate == InitTranslate /\ [][TranslateNext]_vars

SpecDownload == InitDownload /\ [][DownloadNext]_vars

\* everything but the unit looked at stays as constructed
restIdle ==
    /\ PageInit /\ PopupInit /\ manifestScripts /\ imgState = [i \in Images |-> "loaded"]
    /\ MlIdle

\* one anchor from createOverlayAnchor's return on
InitAnchor == restIdle /\ AnchorInit /\ ExtractIdle /\ HelperIdle

\* one call of extractBlocks, the tiers varying
InitTiers == restIdle /\ TiersInit /\ AnchorIdle /\ HelperIdle

\* one call of extractBlocks, the regions of one tier varying
InitFilter == restIdle /\ FilterInit /\ AnchorIdle /\ HelperIdle

\* one call of isGarbage
InitGarbage ==
    /\ restIdle /\ AnchorIdle /\ ExtractIdle
    /\ GarbageInit /\ InflateIdle /\ BoxIdle /\ BackgroundIdle

SpecAnchor == InitAnchor /\ [][AnchorNext]_vars

SpecTiers == InitTiers /\ [][ExtractBlocks]_vars

SpecFilter == InitFilter /\ [][ExtractBlocks]_vars

SpecGarbage == InitGarbage /\ [][IsGarbage]_vars

\* one region brought to the source image's bounds
InitInflate ==
    /\ restIdle /\ AnchorIdle /\ ExtractIdle
    /\ GarbageIdle /\ InflateInit /\ BoxIdle /\ BackgroundIdle

SpecInflate == InitInflate /\ [][InflateBBox]_vars

\* one box built for an overlay
InitBox ==
    /\ restIdle /\ AnchorIdle /\ ExtractIdle
    /\ GarbageIdle /\ InflateIdle /\ BoxInit /\ BackgroundIdle

SpecBox == InitBox /\ [][MakeOverlayBox]_vars

\* the background script and the senders of its requests
InitBackground == restIdle /\ UnitIdle

\* a message sent is delivered or fails, a fetch and a body read settle,
\* and a response sent reaches the sender's callback; no request is forced
BackgroundFairness ==
    \A q \in Requests :
        /\ WF_vars(Receive(q))
        /\ WF_vars(FetchResolves(q))
        /\ WF_vars(BodyRead(q))
        /\ WF_vars(Reply(q))

SpecBackground == InitBackground /\ [][BackgroundNext]_vars

SpecBackgroundFair == SpecBackground /\ BackgroundFairness

(***************************************************************************)
(* Scheduling of the page side: a settled promise's continuation runs, an  *)
(* animation frame comes, a network or model call settles, and an image    *)
(* that is still loading fires load or error.  Requests are not forced.    *)
(***************************************************************************)
PageFairness ==
    /\ \A r \in Runs :
         /\ WF_vars(Resume(r))
         /\ WF_vars(LayoutPoll(r))
         /\ WF_vars(OverlayPoll(r))
         /\ WF_vars(Fetch(r))
         /\ WF_vars(Ocr(r))
         /\ WF_vars(TrFallback(r))
         /\ WF_vars(TrBlock(r))
         /\ WF_vars(TrAll(r))
    /\ \A i \in Images : WF_vars(ImgLoad(i) \/ ImgError(i))

SpecPageFair == SpecPage /\ PageFairness

(***************************************************************************)
(* Claims about the page side.                                             *)
(***************************************************************************)
FailedVisits == {"loadFailed", "layoutTimeout", "overlayTimeout", "noText", "gated",
                 "exception"}

\* C1: when a second TRANSLATE_PAGE request arrives while an earlier
\* processPage run is in flight, an image is inside processImage of at most
\* one run at a time, is never inside processImage once it is flagged
\* processed, and has at most one anchor that carries boxes.
C1_OneWorkflowPerImage ==
    \A i \in Images :
        /\ Cardinality(InFlight(i)) <= 1
        /\ mangaTlProcessed[i] => InFlight(i) = {}
        /\ Cardinality({r \in Runs : anchor[r][i].boxes > 0}) <= 1

\* a second run has skipped an image the first run is still working on
C1_Witness ==
    \E i \in Images : \E r1, r2 \in Runs :
        /\ r1 # r2
        /\ r1 \in InFlight(i)
        /\ visit[r2][i] = "skipped"
        /\ ~mangaTlProcessed[i]

\* C2: whenever processImage has returned for an image, by whatever exit,
\* the image's processing flag is clear: a set flag means that some run is
\* still inside processImage on the image.
C2_ProcessingClearedOnExit ==
    \A i \in Images : mangaTlProcessing[i] => InFlight(i) # {}

\* the workflow of run r leaves processImage in this step
WorkflowEnds(r) == pc[r] \in InFlightPcs /\ pc'[r] \notin InFlightPcs

\* C3: the processed flag is set only on an image some workflow of which
\* ran to the end; a workflow that ends in any other way leaves the flag
\* unset; and no image flagged processed is inside processImage.
C3_ProcessedOnlyOnSuccess ==
    /\ [](\A i \in Images :
            /\ mangaTlProcessed[i] => \E r \in Runs : visit[r][i] = "success"
            /\ mangaTlProcessed[i] => InFlight(i) = {})
    /\ [][\A r \in Runs :
            (WorkflowEnds(r) /\ visit'[r][cur[r]] # "success")
                => ~mangaTlProcessed'[cur[r]]]_vars

\* one image ended without success and is unflagged, another is processed
C3_Witness ==
    \E r \in Runs : \E i, j \in Images :
        /\ visit[r][i] \in {"noText", "gated", "exception"}
        /\ ~mangaTlProcessed[i] /\ ~mangaTlProcessing[i]
        /\ visit[r][j] = "success"
        /\ mangaTlProcessed[j]

\* C4: each image has at most one anchor attached to the document.
C4_AtMostOneActiveAnchor ==
    \A i \in Images : Cardinality(ActiveAnchors(i)) <= 1

\* a failed workflow disposed its anchor and a later request attached a new one
C4_Witness ==
    \E i \in Images : \E r1, r2 \in Runs :
        /\ anchor[r1][i].state = "disposed"
        /\ visit[r1][i] = "exception"
        /\ anchor[r2][i].state = "attached"

\* C5: no failure inside an image's workflow makes processImage reject or
\* ends processPage early: a run that has left its loop has dealt with every
\* image, each one either passed to processImage or skipped for its flags.
C5_FailureDoesNotStopPage ==
    \A r \in Runs :
        /\ pc[r] # "rejected"
        /\ run[r] # "aborted"
        /\ run[r] = "done" => \A i \in Images : visit[r][i] \notin {"none", "running"}

\* a run went on to a later image after an earlier one failed
C5_Witness ==
    \E r \in Runs : \E i, j \in Images :
        /\ i < j
        /\ visit[r][i] \in {"loadFailed", "layoutTimeout", "exception"}
        /\ visit[r][j] \in {"running", "success"} \cup FailedVisits

\* C6: every workflow that is inside processImage eventually leaves it.
C6_WorkflowEventuallyEnds ==
    \A r \in Runs : (pc[r] \in InFlightPcs) ~> (pc[r] \notin InFlightPcs)

(***************************************************************************)
(* Claims about the popup's delivery protocol.                             *)
(***************************************************************************)
OtherFailures == {"other", "injectThrew", "noTabId"}

\* the send callback runs in this step
CallbackRuns == step = "sending" /\ step' # "sending"

\* C7: one translate action injects at most once, and only in the callback
\* of a send that failed for want of a receiver; a successful injection is
\* followed by the delay and then by a resend; a no-receiver failure after
\* the injection ends the action with status error and without injecting.
C7_InjectOnceThenResend ==
    /\ [](/\ injections <= 1
          /\ step = "injecting" => (injections = 1 /\ lastFailure = "noReceiver")
          /\ step = "delay" => (injections = 1 /\ sends = 1 /\ status = "loading"))
    /\ [][/\ injections' > injections => (CallbackRuns /\ lastFailure' = "noReceiver")
          /\ (step = "injecting" /\ lastFailure' = "none" /\ step' # step)
                => (step' = "delay" /\ sends' = sends)
          /\ (step = "delay" /\ step' # step)
                => (step' = "sending" /\ sends' = sends + 1 /\ injections' = injections)
          /\ (CallbackRuns /\ injections = 1 /\ lastFailure' = "noReceiver")
                => (step' = "end" /\ status' = "error" /\ injections' = injections
                    /\ sends' = sends)]_vars

\* the resend after the injection failed for want of a receiver as well
C7_Witness ==
    /\ step = "end" /\ status = "error"
    /\ cause = "stillNoReceiver"
    /\ injections = 1 /\ sends = 2

\* C8: one translate action makes at most maxRetries send attempts.
C8_SendsBounded == sends <= maxRetries

\* an action that resent after a failed delivery and has ended
C8_Witness == step = "end" /\ sends = 2 /\ lastFailure # "none"

\* C9: an action that ended because no receiver was present has made
\* maxRetries send attempts before it reported the failure.
C9_RetriedUpToBound ==
    (step = "end" /\ cause \in {"stillNoReceiver", "bound"}) => sends = maxRetries

\* C10: a failure other than an absent receiver (another send error, the
\* injection throwing, no content script in the manifest, no tab id) ends
\* the action at once with status error and an error entry as the last log
\* entry, and the action makes no send and no injection after it.
C10_OtherFailureTerminal ==
    /\ [](/\ lastFailure \in OtherFailures
            => (step = "end" /\ status = "error" /\ logs[Len(logs)].level = "error")
          /\ (lastFailure = "noReceiver" /\ ~manifestScripts /\ step # "sending")
            => (step = "end" /\ status = "error" /\ logs[Len(logs)].level = "error"
                /\ injections = 0 /\ sends = 1)
          /\ lastFailure = "noTabId" => (sends = 0 /\ injections = 0))
    /\ [][(lastFailure \in OtherFailures /\ actions' = actions)
            => (sends' = sends /\ injections' = injections)]_vars
    /\ [][(CallbackRuns /\ lastFailure' = "other")
            => (sends' = sends /\ injections' = injections)]_vars
    /\ [][(step = "injecting" /\ lastFailure' = "injectThrew")
            => (sends' = sends /\ injections' = injections)]_vars

\* the resend after a successful injection failed with another error
C10_Witness ==
    /\ lastFailure = "other" /\ step = "end" /\ status = "error"
    /\ sends = 2 /\ injections = 1

\* the position of the entry that opens the current action (0 before any)
LastStart ==
    CHOOSE k \in 0..Len(logs) :
        /\ k = 0 \/ logs[k].message = "starting"
        /\ \A j \in (k + 1)..Len(logs) : logs[j].message # "starting"

\* the entries of the current action
ActionLog == SubSeq(logs, LastStart + 1, Len(logs))

\* the attempt numbers the current action logged, in order
AttemptsLogged ==
    LET es == SelectSeq(ActionLog, LAMBDA e : e.message = "sending")
    IN [k \in 1..Len(es) |-> es[k].attempt]

\* C11: when the first send of an action finds no receiver and the send
\* after the injection is answered, the action has made one injection and
\* two sends, its status is translating (done once the progress timer has
\* run out), and its log names attempt 1 and then attempt 2.
C11_InjectThenSecondSendSucceeds ==
    (/\ Len(sendResults) >= 2
     /\ sendResults[1] = "noReceiver"
     /\ sendResults[2] = "ok")
    => /\ Len(sendResults) = 2
       /\ injections = 1
       /\ sends = 2
       /\ status = IF progress >= 100 THEN "done" ELSE "translating"
       /\ AttemptsLogged = <<1, 2>>

\* the resend after the injection has just been acknowledged
C11_Witness ==
    /\ sendResults = <<"noReceiver", "ok">>
    /\ status = "translating" /\ progress = 0
    /\ injections = 1

\* C12: every send is preceded by an info entry naming its attempt; an
\* action whose status has left loading has logged a success entry (request
\* acknowledged) or ends its log with an error entry, and the step that
\* takes the status out of loading appends that entry.
C12_EveryAttemptAndOutcomeLogged ==
    /\ [](/\ AttemptsLogged = [k \in 1..sends |-> k]
          /\ status = "error" => logs[Len(logs)].level = "error"
          /\ status \in {"translating", "done"}
                => \E k \in 1..Len(ActionLog) : ActionLog[k].level = "success")
    /\ [][sends' = sends + 1
            => (/\ Len(logs') > Len(logs)
                /\ logs'[Len(logs')] = [level |-> "info", message |-> "sending",
                                        attempt |-> sends'])]_vars
    /\ [][(status = "loading" /\ status' # "loading")
            => (/\ Len(logs') > Len(logs)
                /\ logs'[Len(logs')].level \in {"success", "error"})]_vars

\* an action ended in failure after its send callback had fired twice
C12_Witness ==
    /\ Len(sendResults) = 2 /\ sendResults[2] # "ok"
    /\ status = "error"
    /\ logs[Len(logs)].level = "error"

(***************************************************************************)
(* Claims about the listener's acknowledgment.                             *)
(***************************************************************************)
\* C13: the listener answers every TRANSLATE_PAGE request with exactly one
\* {status: 'started'}, sent in the step that receives the request, before
\* any image of the run has been dealt with to the end; nothing that
\* happens to the images later adds to or changes that response.
C13_AckOnceAtOnce ==
    /\ [](\A r \in Runs :
            response[r] = IF run[r] = "idle" THEN <<>> ELSE <<"started">>)
    /\ [][\A r \in Runs :
            response'[r] # response[r]
                => (/\ run[r] = "idle"
                    /\ \A i \in Images : visit'[r][i] \in {"none", "skipped", "running"})]_vars

\* the request was acknowledged and one of its images failed afterwards
C13_Witness ==
    \E r \in Runs : \E i \in Images :
        /\ response[r] = <<"started">>
        /\ visit[r][i] = "exception"

(***************************************************************************)
(* Claims about translateText and the model cache.                         *)
(***************************************************************************)
Started(c) == calls[c].pc \notin {"idle", "unused"}

Done(c) == calls[c].pc = "done"

RemoteFailed(c) == calls[c].remote \in {"lastError", "bgError", "empty"}

\* C14: for every input text that contains a blacklisted phrase,
\* translateText returns null without sending a remote translation request
\* and without initializing or invoking the local model.
C14_BlacklistedRejectedUntouched ==
    \A c \in Calls :
        (Started(c) /\ Blacklisted(calls[c].text))
        => /\ Done(c)
           /\ calls[c].result = "null"
           /\ calls[c].remoteCalls = 0
           /\ calls[c].remote = "none"
           /\ calls[c].inits = 0
           /\ calls[c].load = 0
           /\ calls[c].invokes = 0

C14_Witness ==
    /\ calls[1].text = <<"SQ", "of", "the">>
    /\ Done(1)
    /\ calls[1].result = "null"

\* C15: translateText makes the remote attempt first and initializes or
\* invokes the local model only after that attempt failed (an error, or no
\* text); when the remote call returns a non-empty string the local model
\* is neither initialized nor invoked for that call.
C15_LocalOnlyAfterRemoteFailed ==
    /\ [](\A c \in Calls :
            /\ (calls[c].inits > 0 \/ calls[c].load # 0 \/ calls[c].invokes > 0)
               => (calls[c].remoteCalls = 1 /\ RemoteFailed(c))
            /\ calls[c].remote = "text"
               => /\ Done(c) /\ calls[c].via = "remote" /\ calls[c].result = "text"
                  /\ calls[c].inits = 0 /\ calls[c].load = 0 /\ calls[c].invokes = 0)
    /\ [][\A c \in Calls :
            /\ calls'[c].inits > calls[c].inits
               => (calls[c].pc = "remote" /\ calls'[c].remote \in {"lastError", "bgError", "empty"})
            /\ calls'[c].invokes > calls[c].invokes
               => (calls[c].inits = 1 /\ RemoteFailed(c))]_vars

C15_Witness ==
    \E c \in Calls :
        /\ Done(c) /\ calls[c].remote = "lastError" /\ calls[c].remoteCalls = 1
        /\ calls[c].inits = 1 /\ calls[c].invokes = 1
        /\ calls[c].via = "local" /\ calls[c].result = "text"

\* the places in the words of t where the window of NGramSize words at p stands
Occurrences(t, p) ==
    {q \in 1..(Len(t.words) - NGramSize + 1) :
        SubSeq(t.words, q, q + NGramSize - 1) = SubSeq(t.words, p, p + NGramSize - 1)}

\* longer than 50 characters, and some window of 4 consecutive words occurs
\* 3 or more times
HasLoop(t) ==
    /\ CharLen(t) > 50
    /\ \E p \in 1..(Len(t.words) - NGramSize + 1) :
          Cardinality(Occurrences(t, p)) >= NGramRepeats

\* C16: translateText returns null for every translated result longer than
\* 50 characters in which some window of 4 consecutive words occurs 3 or
\* more times, whether the result came from the remote service or from the
\* local model.
C16_LoopedResultRejected ==
    \A c \in Calls :
        (Done(c) /\ calls[c].via \in {"remote", "local"} /\ HasLoop(calls[c].out))
        => calls[c].result = "null"

\* C17: for a translated string longer than 50 characters, the validator's
\* halving check rejects exactly the strings the garbage filter's halving
\* check rejects: more than 6 words, the first floor(n/2) words equal to the
\* following floor(n/2) words.
C17_HalvingChecksAgree ==
    \A c \in Calls :
        (Done(c) /\ calls[c].via = "local" /\ CharLen(calls[c].out) > 50)
        => /\ ValidatorHalving(calls[c].out.words) <=> GarbageHalving(calls[c].out.words)
           /\ GarbageHalving(calls[c].out.words) => calls[c].result = "null"

\* the box processImage makes for a region from what translateText returned:
\* none when the call threw, else one with the returned text or null
Rendered(c) ==
    [box |-> calls[c].result # "threw",
     null |-> calls[c].result = "null",
     text |-> IF calls[c].result = "text" THEN calls[c].out ELSE EmptyText]

\* C18: for the same recognised text, a call whose remote attempt fails and
\* whose local model returns T gives the same box as a call whose remote
\* attempt returns T, and the remote failure of the former is recorded as a
\* warning.
C18_FallbackRendersTheSame ==
    \A c \in Calls : \A d \in Calls :
        (/\ Done(c) /\ calls[c].via = "remote"
         /\ Done(d) /\ calls[d].via = "local"
         /\ calls[c].text = calls[d].text
         /\ calls[c].source = calls[d].source
         /\ calls[c].out = calls[d].out)
        => /\ Rendered(c) = Rendered(d)
           /\ calls[d].warned

\* C19: the local model of a resolved language pair is loaded at most once:
\* no two loads of one model are under way together, and all the calls that
\* got a capability for one model got the same one.
C19_LoadedOncePerModel ==
    \A c \in Calls : \A d \in Calls :
        (c # d /\ ModelOf(c) = ModelOf(d))
        => /\ ~(calls[c].pc = "loading" /\ calls[d].pc = "loading")
           /\ (calls[c].cap # 0 /\ calls[d].cap # 0) => calls[c].cap = calls[d].cap

\* C20: once a forceDownloadModel has completed (its load succeeded), the
\* cache holds no capability whose load began before that call cleared the
\* cache, whatever the interleaving with initTranslator calls.
C20_NoStaleCapabilityAfterForce ==
    \A k \in Clicks :
        (clicks[k].force /\ clicks[k].pc = "done" /\ clicks[k].ok)
        => \A m \in ModelIds :
              translatorCache[m] = 0 \/ translatorCache[m] > clicks[k].clearedAt

(***************************************************************************)
(* Claims about the workflow of one image.                                 *)
(***************************************************************************)
\* the per-region translations of run r have all settled and the boxes are
\* appended in this step
RegionsRendered(r) == pc[r] = "trBlocks" /\ pc'[r] # "trBlocks"

\* the run has left processImage for the image, with an anchor created
EndedWithAnchor(r, i) ==
    /\ visit[r][i] \in {"success"} \cup FailedVisits
    /\ anchor[r][i].state # "none"

\* C21: when the translation of one region throws, the throw is caught and
\* logged for that region and the region gets no box; the other regions
\* get theirs, and the image's workflow ends as a success.
C21_RegionFailureStaysLocal ==
    /\ [](\A r \in Runs :
            pc[r] = "trBlocks"
            => /\ results[r].str + results[r].nul + results[r].thr + pending[r]
                     = ocr[r].regions
               /\ visit[r][cur[r]] = "running")
    /\ [][\A r \in Runs :
            /\ results'[r].thr > results[r].thr
               => (pc'[r] = "trBlocks" /\ pending'[r] = pending[r] - 1)
            /\ RegionsRendered(r)
               => /\ anchor'[r][cur[r]].boxes = ocr[r].regions - results[r].thr
                  /\ anchor'[r][cur[r]].boxes >= results[r].str
                  /\ anchor'[r][cur[r]].border = "purple"
                  /\ visit'[r][cur[r]] = "success"
                  /\ mangaTlProcessed'[cur[r]]
                  /\ pc'[r] = "ended"]_vars

\* the translation of one region threw and was logged, that of a sibling
\* gave a string, and the image is still inside its workflow
C21_Witness ==
    \E r \in Runs :
        /\ pc[r] = "trBlocks" /\ pending[r] = 0
        /\ results[r].thr >= 1 /\ results[r].str >= 1
        /\ visit[r][cur[r]] = "running"

\* C22: a region for which translateText returned null gets no box: the
\* boxes appended for an image are those of the regions with a translated
\* string.
C22_NullGetsNoBox ==
    [][\A r \in Runs :
            RegionsRendered(r) => anchor'[r][cur[r]].boxes = results[r].str]_vars

RECURSIVE PendingUpTo(_)
PendingUpTo(r) == IF r = 0 THEN 0 ELSE pending[r] + PendingUpTo(r - 1)

\* C23: at most one image of the page is inside its workflow at any time,
\* and the translation calls in flight are at most the regions of one image.
C23_OneImageAtATime ==
    /\ Cardinality({i \in Images : InFlight(i) # {}}) <= 1
    /\ PendingUpTo(MaxRuns) <= MaxBlocks

\* C24: for every workflow that created an anchor, the anchor is disposed
\* when the processing of the image has ended, on every exit path.
C24_DisposedOnEveryExit ==
    \A r \in Runs : \A i \in Images :
        EndedWithAnchor(r, i) => anchor[r][i].state = "disposed"

\* C24, amended: when the processing of the image has ended, the anchor is
\* disposed exactly when no box was added to it; an anchor with a box stays
\* attached.
C24_DisposedExactlyWhenEmpty ==
    \A r \in Runs : \A i \in Images :
        EndedWithAnchor(r, i)
        => /\ anchor[r][i].boxes = 0 <=> anchor[r][i].state = "disposed"
           /\ anchor[r][i].boxes > 0 <=> anchor[r][i].state = "attached"

\* one image ended with boxes on its attached anchor, another without a
\* box and with its anchor disposed
C24_Witness ==
    \E r \in Runs : \E i, j \in Images :
        /\ visit[r][i] = "success"
        /\ anchor[r][i].state = "attached" /\ anchor[r][i].boxes > 0
        /\ visit[r][j] \in {"success", "noText", "gated", "exception"}
        /\ anchor[r][j].state = "disposed" /\ anchor[r][j].boxes = 0

\* C25: an anchor without a box is attached only while its workflow is
\* running: once the workflow has ended, by any exit, the anchor has been
\* disposed.
C25_NoEmptyAnchorStaysAttached ==
    \A r \in Runs : \A i \in Images :
        (anchor[r][i].state = "attached" /\ anchor[r][i].boxes = 0)
        => (r \in InFlight(i) /\ visit[r][i] = "running")

\* the overlay never got a size: the anchor was disposed before the return
C25_Witness ==
    \E r \in Runs : \E i \in Images :
        /\ visit[r][i] = "overlayTimeout"
        /\ anchor[r][i].state = "disposed"
        /\ pc[r] \notin InFlightPcs \/ cur[r] # i

\* C27: an exception in the workflow of an image is caught in processImage:
\* the anchor's border is recoloured, both flags of the image are unset when
\* processImage returns, and processPage goes on with the next image.
C27_ExceptionCaughtAndRolledBack ==
    /\ [](\A r \in Runs :
            /\ run[r] # "aborted"
            /\ \A i \in Images :
                 visit[r][i] = "exception" => anchor[r][i].border = "red")
    /\ [][\A r \in Runs :
            /\ (WorkflowEnds(r) /\ visit'[r][cur[r]] = "exception")
               => /\ pc'[r] = "ended"
                  /\ ~mangaTlProcessing'[cur[r]]
                  /\ ~mangaTlProcessed'[cur[r]]
            /\ (pc[r] = "ended" /\ pc'[r] # "ended")
               => (cur'[r] > cur[r] /\ run'[r] \in {"active", "done"})]_vars

\* after an exception the run went on to the next image, and a later
\* request processed the image again
C27_Witness ==
    \E r1, r2 \in Runs : \E i, j \in Images :
        /\ r1 < r2 /\ i < j
        /\ visit[r1][i] = "exception" /\ anchor[r1][i].border = "red"
        /\ visit[r1][j] \notin {"none", "skipped"}
        /\ visit[r2][i] = "success"

\* C30: with zero regions, the whole-image translation is started only for
\* an overall confidence of at least 30 and a text that is not garbage;
\* otherwise no translateText call is made and no box is rendered.
C30_FallbackOnlyPastTheGate ==
    /\ [](\A r \in Runs :
            /\ pc[r] = "trFallback"
               => /\ ocr[r].regions = 0
                  /\ ocr[r].confidence >= MinFallbackConfidence
                  /\ ocr[r].text = "clean"
                  /\ pending[r] = 1
            /\ \A i \in Images :
                 visit[r][i] = "gated"
                 => (anchor[r][i].boxes = 0 /\ anchor[r][i].state = "disposed"))
    /\ [][\A r \in Runs :
            (pc[r] = "ocr" /\ visit'[r][cur[r]] = "gated")
            => (pc'[r] = "ended" /\ pending'[r] = 0 /\ results'[r] = NoResults)]_vars

\* one request left the image at the gate, a later one is translating its
\* whole text
C30_Witness ==
    \E r1, r2 \in Runs : \E i \in Images :
        /\ visit[r1][i] = "gated" /\ anchor[r1][i].state = "disposed"
        /\ cur[r2] = i /\ pc[r2] = "trFallback"
        /\ ocr[r2].confidence = MinFallbackConfidence

(***************************************************************************)
(* Claims about the overlay anchor and the region extractor                *)
(***************************************************************************)
Disposed(a) ==
    /\ a.rafId = 0
    /\ ~a.observing
    /\ ~a.listening
    /\ a.el = "removed"

\* C26: once dispose has been called the per-frame loop is cancelled, the
\* observer and the listeners are detached and the element is removed, and a
\* further call of dispose changes nothing of the anchor but the number of
\* calls made; dispose has no failing path.
C26_DisposeIdempotent ==
    /\ [](overlayAnchor.disposeCalls >= 1 => Disposed(overlayAnchor))
    /\ [][(overlayAnchor.disposeCalls >= 1
            /\ overlayAnchor'.disposeCalls > overlayAnchor.disposeCalls)
          => /\ overlayAnchor' = [overlayAnchor EXCEPT !.disposeCalls = @ + 1]
             /\ imgRect' = imgRect]_vars

C26_Witness ==
    /\ overlayAnchor.disposeCalls >= 2
    /\ Disposed(overlayAnchor)
    /\ overlayAnchor.bounds # 0

\* the filtered list of the k-th tier
Filtered(k) == mapItems(ocrResult[TierOrder[k]], ocrResult.imageSize)

\* C28: extractBlocks returns the filtered regions of the first tier, in the
\* order blocks, paragraphs, lines, words, whose filtered list is not empty,
\* and the empty list when every tier's filtered list is empty; the regions
\* returned are all of one tier.
C28_FirstNonEmptyTier ==
    extracted.done =>
        /\ \/ /\ \A k \in 1..Len(TierOrder) : Filtered(k) = <<>>
              /\ extracted.items = <<>>
           \/ \E k \in 1..Len(TierOrder) :
                /\ Filtered(k) # <<>>
                /\ \A j \in 1..(k - 1) : Filtered(j) = <<>>
                /\ extracted.items = Filtered(k)
        /\ \A m, n \in 1..Len(extracted.items) :
                extracted.items[m].level = extracted.items[n].level

C28_Witness ==
    /\ extracted.done
    /\ Len(ocrResult.blocks) > 0
    /\ \A k \in 1..3 : Filtered(k) = <<>>
    /\ extracted.items # <<>>
    /\ \A m \in 1..Len(extracted.items) : extracted.items[m].level = "words"

\* every filter the regions returned have passed, as a predicate of a region
\* and the image size the recognizer reported (no area test without a size)
PassesEveryFilter(b, size) ==
    LET w == b.bbox.x1 - b.bbox.x0
        h == b.bbox.y1 - b.bbox.y0
    IN  /\ Len(b.text) > 0
        /\ b.bbox.present
        /\ b.confidence >= MinConfidence
        /\ ~isGarbage(b.text)
        /\ (size.present => 10 * (w * h) <= MaxAreaTenths * (size.width * size.height))
        /\ h > 0
        /\ MinRatioInverse * w >= h
        /\ w <= MaxRatio * h

\* C29: every region extractBlocks returns has a non-empty normalized text,
\* a bounding box, a confidence of at least 20, a text the garbage filter
\* accepts, an area of at most 80% of the image and a width/height ratio
\* within [0.02, 60].
C29_ReturnedRegionsPassEveryFilter ==
    extracted.done =>
        \A m \in 1..Len(extracted.items) :
            PassesEveryFilter(extracted.items[m], ocrResult.imageSize)

(***************************************************************************)
(* Claims about the garbage filter                                         *)
(***************************************************************************)
\* the first half of the words is the second half
HalvesEqual(ws) ==
    LET half == Len(ws) \div 2
    IN  SubSeq(ws, 1, half) = SubSeq(ws, half + 1, 2 * half)

\* C31: isGarbage rejects every string of more than 3 characters that is one
\* character repeated, and every string of more than 6 words whose first half
\* of the words equals the second half.
C31_RejectsRepeats ==
    garbage.done =>
        /\ (Len(garbage.text) > 3 /\ \A k \in 1..Len(garbage.text) : garbage.text[k] = garbage.text[1])
             => garbage.result
        /\ (Len(garbage.words) > 6 /\ HalvesEqual(garbage.words)) => garbage.result

C31_Witness ==
    /\ garbage.done
    /\ Len(garbage.words) > 6
    /\ HalvesEqual(garbage.words)
    /\ garbage.words[1] # garbage.words[2]
    /\ garbage.result

\* a sentence of 3 or more words of alphanumeric characters, joined by single
\* spaces
AlnumSentence(g) ==
    /\ Len(g.words) >= 3
    /\ \A k \in 1..Len(g.words) :
          /\ Len(g.words[k]) > 0
          /\ \A j \in 1..Len(g.words[k]) : IsWordChar(g.words[k][j])

\* C32 as stated: isGarbage accepts every sentence of 3 or more words made of
\* alphanumeric characters and single spaces.
C32_AcceptsEverySentence ==
    (garbage.done /\ AlnumSentence(garbage)) => ~garbage.result

HasKnownPhrase(t) ==
    \/ Includes(t, <<"S", "Q", " ", "o", "f", " ", "t", "h", "e">>)
    \/ Includes(t, <<"T", "h", "e", " ", "S", "Q">>)

\* C32, amended: isGarbage accepts every sentence of 3 or more words made of
\* alphanumeric characters and single spaces that contains neither "SQ of the"
\* nor "The SQ" and is not a sentence of more than 6 words whose first half
\* equals its second half.
C32_AcceptsPlainSentences ==
    (/\ garbage.done
     /\ AlnumSentence(garbage)
     /\ ~HasKnownPhrase(garbage.text)
     /\ ~(Len(garbage.words) > 6 /\ HalvesEqual(garbage.words)))
    => ~garbage.result

C32_Witness ==
    /\ garbage.done
    /\ AlnumSentence(garbage)
    /\ Len(garbage.words) > 6
    /\ ~HalvesEqual(garbage.words)
    /\ ~garbage.result

(***************************************************************************)
(* Claims about the geometry of the boxes                                  *)
(***************************************************************************)
\* C33: the box inflateBBox returns for a region of extractBlocks lies within
\* the source dimensions getScaleFactors chose: 0 <= x0 <= x1 <= source width
\* and 0 <= y0 <= y1 <= source height.
C33_InflatedWithinSource ==
    inflated.done =>
        /\ 0 <= inflated.out.x0
        /\ inflated.out.x0 <= inflated.out.x1
        /\ inflated.out.x1 <= inflated.sourceWidth * PerPixel
        /\ 0 <= inflated.out.y0
        /\ inflated.out.y0 <= inflated.out.y1
        /\ inflated.out.y1 <= inflated.sourceHeight * PerPixel

\* C34: a box built by makeOverlayBox with the overlay's width W and height H
\* lies inside the overlay: left >= 0, top >= 0, left + width <= W and
\* top + minimum height <= H.
C34_BoxInsideOverlay ==
    overlayBox.done =>
        /\ overlayBox.style.left >= 0
        /\ overlayBox.style.top >= 0
        /\ overlayBox.style.left + overlayBox.style.width <= overlayBox.containerWidth
        /\ overlayBox.style.top + overlayBox.style.minHeight <= overlayBox.containerHeight

(***************************************************************************)
(* Claims about the steps of one image's workflow                          *)
(***************************************************************************)
\* the fetch of run r settles in this step
FetchSettles(r) == pc[r] = "fetch" /\ pc'[r] # "fetch"

\* C35: when the fetch of the image bytes settles, with the bytes or with a
\* failure, the workflow goes on to recognition with nothing else changed;
\* after a failure there is no object URL and recognition gets img.src.
C35_FetchFailureFallsBack ==
    /\ [](\A r \in Runs : (pc[r] = "fetch") => ~objectUrl[r])
    /\ [][\A r \in Runs :
            FetchSettles(r) =>
                /\ pc'[r] = "ocr"
                /\ visit' = visit
                /\ anchor' = anchor
                /\ mangaTlProcessing' = mangaTlProcessing
                /\ mangaTlProcessed' = mangaTlProcessed]_vars

\* the fetch failed and recognition is under way on img.src
C35_Witness ==
    \E r \in Runs :
        /\ pc[r] = "ocr"
        /\ ~objectUrl[r]
        /\ anchor[r][cur[r]].state = "attached"
        /\ visit[r][cur[r]] = "running"

\* C36: a region whose translation has resolved to a string has its box while
\* the translation of a sibling region is still pending.
C36_BoxAsSoonAsResolved ==
    \A r \in Runs :
        (pc[r] = "trBlocks" /\ pending[r] > 0)
            => anchor[r][cur[r]].boxes >= results[r].str

\* the position of a step in processImage
StepRank(p) ==
    CASE p = "waitImage" -> 1
      [] p = "layout" -> 2
      [] p = "overlay" -> 3
      [] p = "fetch" -> 4
      [] p = "ocr" -> 5
      [] p \in {"trFallback", "trBlocks"} -> 6
      [] OTHER -> 7

\* C38: inside one image's workflow the steps follow the order load wait,
\* layout wait, anchor creation and size wait, fetch, recognition, translation
\* and rendering, and a step is entered from the step before it only: the
\* anchor exists only once the layout wait has seen the image sized, the
\* fetch starts only after the size wait, recognition only after the fetch.
C38_StepsInOrder ==
    /\ [](\A r \in Runs : \A i \in Images :
            (anchor[r][i].state # "none" /\ cur[r] = i /\ pc[r] \in InFlightPcs)
                => StepRank(pc[r]) >= 3)
    /\ [][\A r \in Runs :
            /\ (cur'[r] = cur[r] /\ pc[r] \in InFlightPcs)
                  => StepRank(pc'[r]) >= StepRank(pc[r])
            /\ (pc'[r] # pc[r] /\ pc'[r] = "overlay")
                  => (pc[r] = "layout" /\ anchor[r][cur[r]].state = "none"
                      /\ anchor'[r][cur[r]].state = "attached")
            /\ (pc'[r] # pc[r] /\ pc'[r] = "fetch") => pc[r] = "overlay"
            /\ (pc'[r] # pc[r] /\ pc'[r] = "ocr") => pc[r] = "fetch"
            /\ (pc'[r] # pc[r] /\ pc'[r] \in {"trFallback", "trBlocks"}) => pc[r] = "ocr"]_vars

\* a workflow that went through every step and rendered a box
C38_Witness ==
    \E r \in Runs : \E i \in Images :
        /\ visit[r][i] = "success"
        /\ anchor[r][i].state = "attached"
        /\ anchor[r][i].boxes = MaxBlocks
        /\ pc[r] = "ended"

\* every region of the image of run r has thrown
AllRegionsThrew(r) ==
    /\ pc[r] = "trBlocks"
    /\ pending[r] = 0
    /\ ocr[r].regions >= 1
    /\ results[r].thr = ocr[r].regions

\* C40: when the translation of every one of the N >= 1 regions throws, the
\* workflow ends as a success: the processed flag is set, the processing flag
\* is cleared and the anchor, which has no box, is disposed; an image whose
\* processed flag is set is never taken by the loop again.
C40_AllThrownStillSuccess ==
    [][/\ \A r \in Runs :
            (AllRegionsThrew(r) /\ RegionsRendered(r)) =>
                LET i == cur[r] IN
                /\ visit'[r][i] = "success"
                /\ pc'[r] = "ended"
                /\ mangaTlProcessed'[i]
                /\ ~mangaTlProcessing'[i]
                /\ anchor'[r][i].state = "disposed"
                /\ anchor'[r][i].boxes = 0
       /\ \A i \in Images :
            (mangaTlProcessed[i] /\ ~mangaTlProcessing[i]) => ~mangaTlProcessing'[i]]_vars

\* all MaxBlocks regions of an image have thrown
C40_Witness ==
    \E r \in Runs :
        /\ AllRegionsThrew(r)
        /\ ocr[r].regions = MaxBlocks
        /\ visit[r][cur[r]] = "running"

(***************************************************************************)
(* Claims about the anchor after its disposal                              *)
(***************************************************************************)
\* C37: once dispose has been called, no step writes the surface's position
\* or size again.
C37_NoResyncAfterDispose ==
    [][overlayAnchor.disposeCalls >= 1
         => overlayAnchor'.bounds = overlayAnchor.bounds]_vars

(***************************************************************************)
(* Claims about the background script                                      *)
(***************************************************************************)
FailureCauses == {"network", "http", "body", "nonJson", "parse", "type"}

\* the handler has run to its end for the request
Handled(req) == req.cause # "none"

\* C39: the handler sends one response for every request it receives,
\* {success: true, data} after an OK JSON reply and {success: false, error}
\* after a network error, a non-OK status, a non-JSON content type or a body
\* that cannot be read or parsed, and never a second one; the promise of
\* translateViaLibre never rejects, resolves to the response's data or to
\* null, and always resolves once the request is sent.
C39_OneResponsePerRequest ==
    /\ [](\A q \in Requests :
            LET req == background[q] IN
            /\ req.responses <= 1
            /\ req.settled # "rejected"
            /\ req.pc # "unhandled"
            /\ Handled(req) =>
                 /\ req.responses = 1
                 /\ req.cause = "ok" => (req.response.success /\ req.response.data # "none")
                 /\ req.cause \in FailureCauses =>
                      (~req.response.success /\ req.response.error = req.cause)
            /\ req.settled = "resolved" =>
                 req.value = IF req.cause = "ok" THEN req.response.data ELSE "null")
    /\ \A q \in Requests :
          (background[q].pc = "sent") ~> (background[q].settled = "resolved")

\* one request answered with a translation, another with a failure, both
\* promises resolved
C39_Witness ==
    \E p, q \in Requests :
        /\ background[p].settled = "resolved" /\ background[p].value = "text"
        /\ background[p].response.success
        /\ background[q].settled = "resolved" /\ background[q].value = "null"
        /\ background[q].cause = "nonJson" /\ background[q].responses = 1

====
